---- MODULE Spec2Model ----
(***************************************************************************)
(* A model of the ClientHello fingerprint engine of shadow-ai-signatures:  *)
(*   scripts/ja4_improved.py        parse_tls_client_hello,                *)
(*                                  calculate_ja4_improved,                *)
(*                                  extract_ja4_from_pcap                  *)
(*   calculate_all_improved_ja4.py  process_all_pcaps, update_database     *)
(*                                                                         *)
(* A byte buffer is a sequence of naturals in 0..255; Python's 0-based     *)
(* index i is position i+1 of the sequence.                                *)
(***************************************************************************)
EXTENDS Integers, Sequences, FiniteSets, TLC

VARIABLES
    raw,                  \* the payload handed to parse_tls_client_hello
    wire,                 \* how raw was produced (the ClientHello it carries)
    tls_data,             \* the value parse_tls_client_hello returned
    ja4,                  \* the value calculate_ja4_improved returned
    orig,                 \* the first value encoded and its fingerprint
    ppc,                  \* position in the packet-to-fingerprint pipeline
    frame,                \* parse_tls_client_hello run turn by turn: its locals
    processed,            \* packets the capture loop has gone through
    seen_connections,     \* extract_ja4_from_pcap: seen_connections
    signatures,           \* extract_ja4_from_pcap: signatures
    calls,                \* the calls of extract_ja4_from_pcap: their locals
    framework_signatures, \* process_all_pcaps: framework_signatures
    results,              \* process_all_pcaps: results
    printed,              \* process_all_pcaps: the consistency line printed
    db,                   \* update_database: existing_entries
    apc                   \* position in process_all_pcaps / update_database

parseVars == <<raw, wire, tls_data, ja4, orig, ppc, frame>>
sessionVars == <<processed, seen_connections, signatures, calls>>
aggVars == <<framework_signatures, results, printed, db, apc>>
vars == <<raw, wire, tls_data, ja4, orig, ppc, frame, processed, seen_connections,
          signatures, calls, framework_signatures, results, printed, db, apc>>

(***************************************************************************)
(* Bounds of the model.                                                    *)
(***************************************************************************)
MaxSuites == 2     \* cipher suites offered by a generated ClientHello
MaxExts == 2       \* extensions offered by a generated ClientHello
MaxPkts == 3       \* packets of one capture session
MaxObs == 4        \* observations collected over all labels

(***************************************************************************)
(* Program constants.                                                      *)
(***************************************************************************)
HANDSHAKE == 22        \* 0x16, content type
CLIENT_HELLO == 1      \* 0x01, handshake message type
RecordHeaderLen == 5
TypeOffset == 6        \* buffers shorter than this have no handshake type
HelloOffset == 9       \* 5 (record) + 4 (handshake header)
RandomLen == 32
ALPN == 16
SNI == 0
MaxCount == 99
HTTPS == 443

(***************************************************************************)
(* Byte access.  raw_data[i] raises IndexError outside the buffer;         *)
(* struct.unpack('>H', raw_data[i:i+2]) raises struct.error when the slice *)
(* is shorter than two bytes.  CanRead states that neither happens.        *)
(***************************************************************************)
At(buf, i) == buf[i + 1]

CanRead(buf, i, n) == i >= 0 /\ i + n <= Len(buf)

U16(buf, i) == At(buf, i) * 256 + At(buf, i + 1)

(***************************************************************************)
(* Outcomes of parse_tls_client_hello.  oob records that a read asked for  *)
(* a byte outside the buffer (the IndexError / struct.error of Python).    *)
(***************************************************************************)
None == [kind |-> "None", oob |-> FALSE]

\* except (IndexError, struct.error): return None
Caught == [kind |-> "None", oob |-> TRUE]

\* an exception raised outside the try block leaves the function
Raised == [kind |-> "Raised", oob |-> TRUE]

\* a slip: only the first element is looked at
Contains_First(s, x) == s # <<>> /\ s[1] = x

Contains(s, x) == \E i \in 1..Len(s) : s[i] = x

ClientHelloInfo(version, cipher_suites, extensions) ==
    [kind |-> "ClientHelloInfo", oob |-> FALSE,
     version |-> version,
     cipher_suites |-> cipher_suites,
     extensions |-> extensions,
     alpn |-> Contains(extensions, ALPN),
     sni |-> Contains(extensions, SNI),
     valid |-> TRUE]

(***************************************************************************)
(* The guards and offset steps of the parser, one definition per line of   *)
(* code.                                                                   *)
(***************************************************************************)
\* offset += 32 : the read position of the session-ID length
SessionIdOffset == HelloOffset + RandomLen

\* a slip: the session ID itself is not skipped
AfterSessionId_NoSkip(buf, offset) == offset + 1

\* session_id_len = raw_data[offset]; offset += 1 + session_id_len
AfterSessionId(buf, offset) == offset + 1 + At(buf, offset)

\* if len(raw_data) <= offset + 1: break
CipherLoopBreak(buf, offset) == Len(buf) <= offset + 1

\* compression_len = raw_data[offset]; offset += 1 + compression_len
AfterCompression(buf, offset) == offset + 1 + At(buf, offset)

\* a slip: room for the extension type only, not for its length
ExtLoopCond_TypeOnly(buf, ext_offset, offset, extensions_len) ==
    /\ ext_offset < offset + extensions_len
    /\ ext_offset < Len(buf) - 1

\* while ext_offset < offset + extensions_len and ext_offset < len(raw_data) - 3
ExtLoopCond(buf, ext_offset, offset, extensions_len) ==
    /\ ext_offset < offset + extensions_len
    /\ ext_offset < Len(buf) - 3

\* a slip: the extension header is counted as 2 bytes
NextExtOffset_ShortHeader(buf, ext_offset) == ext_offset + 2 + U16(buf, ext_offset + 2)

\* ext_offset += 4 + ext_len
NextExtOffset(buf, ext_offset) == ext_offset + 4 + U16(buf, ext_offset + 2)

\* for i in range(0, cipher_suites_len, 2): ... cipher_suites.append(cipher)
RECURSIVE CipherLoop(_, _, _, _, _)
CipherLoop(buf, offset, i, cipher_suites_len, cipher_suites) ==
    IF i >= cipher_suites_len
    THEN [offset |-> offset, cipher_suites |-> cipher_suites, err |-> FALSE]
    ELSE IF CipherLoopBreak(buf, offset)
    THEN [offset |-> offset, cipher_suites |-> cipher_suites, err |-> FALSE]
    ELSE IF ~CanRead(buf, offset, 2)
    THEN [offset |-> offset, cipher_suites |-> cipher_suites, err |-> TRUE]
    ELSE CipherLoop(buf, offset + 2, i + 2, cipher_suites_len,
                    Append(cipher_suites, U16(buf, offset)))

\* while ...: ext_type, ext_len = ...; extensions.append(ext_type);
\*            ext_offset += 4 + ext_len
RECURSIVE ExtLoop(_, _, _, _, _)
ExtLoop(buf, ext_offset, offset, extensions_len, extensions) ==
    IF ~ExtLoopCond(buf, ext_offset, offset, extensions_len)
    THEN [extensions |-> extensions, err |-> FALSE]
    ELSE IF ~CanRead(buf, ext_offset, 2) \/ ~CanRead(buf, ext_offset + 2, 2)
    THEN [extensions |-> extensions, err |-> TRUE]
    ELSE ExtLoop(buf, NextExtOffset(buf, ext_offset), offset,
                 extensions_len, Append(extensions, U16(buf, ext_offset)))

\* the body of the try block, lines 59-116
ParseBody(buf, version) ==
    LET offset1 == SessionIdOffset IN
    IF Len(buf) <= offset1 THEN None
    ELSE IF ~CanRead(buf, offset1, 1) THEN Caught
    ELSE
    LET offset2 == AfterSessionId(buf, offset1) IN
    IF Len(buf) <= offset2 + 1 THEN None
    ELSE IF ~CanRead(buf, offset2, 2) THEN Caught
    ELSE
    LET cipher_suites_len == U16(buf, offset2)
        cl == CipherLoop(buf, offset2 + 2, 0, cipher_suites_len, <<>>)
        offset3 == cl.offset
    IN
    IF cl.err THEN Caught
    ELSE IF Len(buf) <= offset3 THEN None
    ELSE IF ~CanRead(buf, offset3, 1) THEN Caught
    ELSE
    LET offset4 == AfterCompression(buf, offset3) IN
    IF Len(buf) <= offset4 + 1 THEN None
    ELSE IF ~CanRead(buf, offset4, 2) THEN Caught
    ELSE
    LET extensions_len == U16(buf, offset4)
        offset5 == offset4 + 2
        el == ExtLoop(buf, offset5, offset5, extensions_len, <<>>)
    IN
    IF el.err THEN Caught
    ELSE ClientHelloInfo(version, cl.cipher_suites, el.extensions)

\* a slip: the version is taken from the ClientHello body (the client
\* version after the handshake header), not from the record header
parse_tls_client_hello_ClientVersion(buf) ==
    IF Len(buf) < RecordHeaderLen THEN None
    ELSE IF At(buf, 0) # HANDSHAKE THEN None
    ELSE IF Len(buf) < TypeOffset THEN None
    ELSE IF At(buf, 5) # CLIENT_HELLO THEN None
    ELSE IF Len(buf) <= HelloOffset THEN None
    ELSE IF ~CanRead(buf, HelloOffset, 2) THEN Caught
    ELSE ParseBody(buf, U16(buf, HelloOffset))

\* a slip: a record whose declared length is not the length of what
\* follows the record header is refused
parse_tls_client_hello_CheckedLength(buf) ==
    IF Len(buf) < RecordHeaderLen THEN None
    ELSE IF At(buf, 0) # HANDSHAKE THEN None
    ELSE IF U16(buf, 3) # Len(buf) - RecordHeaderLen THEN None
    ELSE IF Len(buf) < TypeOffset THEN None
    ELSE IF At(buf, 5) # CLIENT_HELLO THEN None
    ELSE IF Len(buf) <= HelloOffset THEN None
    ELSE ParseBody(buf, U16(buf, 1))

\* a slip: the handshake message type is not looked at
parse_tls_client_hello_AnyMessage(buf) ==
    IF Len(buf) < RecordHeaderLen THEN None
    ELSE IF At(buf, 0) # HANDSHAKE THEN None
    ELSE IF Len(buf) <= HelloOffset THEN None
    ELSE ParseBody(buf, U16(buf, 1))

parse_tls_client_hello(buf) ==
    IF Len(buf) < RecordHeaderLen THEN None
    ELSE IF ~CanRead(buf, 0, 1) THEN Raised
    ELSE IF At(buf, 0) # HANDSHAKE THEN None
    ELSE IF ~CanRead(buf, 1, 2) THEN Raised
    ELSE
    LET version == U16(buf, 1) IN
    IF Len(buf) < TypeOffset THEN None
    ELSE IF ~CanRead(buf, 5, 1) THEN Raised
    ELSE IF At(buf, 5) # CLIENT_HELLO THEN None
    ELSE IF Len(buf) <= HelloOffset THEN None
    ELSE ParseBody(buf, version)

(***************************************************************************)
(* calculate_ja4_improved.  Strings are TLA+ strings; the lists that are   *)
(* hashed are kept as sequences of one-character strings so that the       *)
(* digest can read them.                                                   *)
(***************************************************************************)
HexChars == <<"0", "1", "2", "3", "4", "5", "6", "7",
              "8", "9", "a", "b", "c", "d", "e", "f">>

\* version_map.get(tls_data['version'], 't13')
VersionTag(version) ==
    CASE version = 769 -> "t10"
      [] version = 770 -> "t11"
      [] version = 771 -> "t12"
      [] version = 772 -> "t13"
      [] OTHER -> "t13"

RECURSIVE Decimal(_)
Decimal(n) == IF n < 10 THEN HexChars[n + 1]
              ELSE Decimal(n \div 10) \o HexChars[(n % 10) + 1]

\* a slip: no zero padding
Fmt02_NoPad(n) == Decimal(n)

\* f"{n:02d}": at least two decimal digits, zero padded
Fmt02(n) == IF n < 10 THEN "0" \o Decimal(n) ELSE Decimal(n)

\* a slip: the count is not clamped
Min_NoClamp(a, b) == a

Min(a, b) == IF a <= b THEN a ELSE b

\* f"{c:04x}" of a 16-bit value, as characters
Hex4(c) == <<HexChars[((c \div 4096) % 16) + 1], HexChars[((c \div 256) % 16) + 1],
             HexChars[((c \div 16) % 16) + 1], HexChars[(c % 16) + 1]>>

\* a slip: the list is hashed in wire order
Sorted_WireOrder(s) == s

\* sorted(list): ascending, duplicates kept.  The k-th element is the value
\* x with fewer than k elements below it and at least k elements up to it.
Sorted(s) ==
    [k \in 1..Len(s) |->
        CHOOSE x \in {s[i] : i \in 1..Len(s)} :
            /\ Cardinality({i \in 1..Len(s) : s[i] < x}) < k
            /\ k <= Cardinality({i \in 1..Len(s) : s[i] <= x})]

\* ','.join(f"{c:04x}" for c in codes): four characters for each code and
\* a comma between two codes
JoinHex(codes) ==
    IF codes = <<>> THEN <<>>
    ELSE LET hex == [k \in 1..Len(codes) |-> Hex4(codes[k])]
         IN [p \in 1..(5 * Len(codes) - 1) |->
                IF p % 5 = 0 THEN ","
                ELSE hex[((p - 1) \div 5) + 1][((p - 1) % 5) + 1]]

(***************************************************************************)
(* hashlib.sha256(s.encode()).hexdigest()[:12].  SHA-256 itself is not     *)
(* computed: Sha256Hex12 stands for it as a deterministic function of the  *)
(* characters of s whose value is 12 lowercase hex characters (three       *)
(* 16-bit lanes of a polynomial checksum).                                 *)
(***************************************************************************)
CharCode(ch) ==
    CASE ch = "," -> 17
      [] ch = "0" -> 1 [] ch = "1" -> 2 [] ch = "2" -> 3 [] ch = "3" -> 4
      [] ch = "4" -> 5 [] ch = "5" -> 6 [] ch = "6" -> 7 [] ch = "7" -> 8
      [] ch = "8" -> 9 [] ch = "9" -> 10 [] ch = "a" -> 11 [] ch = "b" -> 12
      [] ch = "c" -> 13 [] ch = "d" -> 14 [] ch = "e" -> 15 [] ch = "f" -> 16

\* one lane: the characters lo..hi of s are folded from left to right, the
\* left half of them before the right half
RECURSIVE LaneOver(_, _, _, _, _)
LaneOver(s, lo, hi, mult, h) ==
    IF lo > hi THEN h
    ELSE IF lo = hi THEN (h * mult + CharCode(s[lo])) % 65521
    ELSE LET mid == (lo + hi) \div 2
             left == LaneOver(s, lo, mid, mult, h)
         IN IF left >= 0 THEN LaneOver(s, mid + 1, hi, mult, left) ELSE left

Lane(s, mult, h) == LaneOver(s, 1, Len(s), mult, h)

HexString4(v) == LET h == Hex4(v) IN h[1] \o h[2] \o h[3] \o h[4]

Sha256Hex12(s) == HexString4(Lane(s, 31, 7)) \o HexString4(Lane(s, 37, 11))
                  \o HexString4(Lane(s, 41, 13))

calculate_ja4_improved(td) ==
    LET protocol == VersionTag(td.version)
        sni == IF td.sni THEN "d" ELSE "i"
        cipher_count_str == Fmt02(Min(Len(td.cipher_suites), MaxCount))
        ext_count_str == Fmt02(Min(Len(td.extensions), MaxCount))
        alpn == IF td.alpn THEN "h2" ELSE "00"
        part1 == protocol \o sni \o cipher_count_str \o ext_count_str \o alpn
        cipher_hash == Sha256Hex12(JoinHex(Sorted(td.cipher_suites)))
        ext_hash == Sha256Hex12(JoinHex(Sorted(td.extensions)))
    IN part1 \o "_" \o cipher_hash \o "_" \o ext_hash

(***************************************************************************)
(* The payloads the capture layer delivers: ClientHello records in TLS     *)
(* wire format, whole, cut at any byte offset, or with the content type or *)
(* the handshake type changed.                                             *)
(***************************************************************************)
BE16(v) == <<(v \div 256) % 256, v % 256>>

BE24(v) == <<(v \div 65536) % 256, (v \div 256) % 256, v % 256>>

SeqsUpTo(S, n) == UNION {[1..k -> S] : k \in 0..n}

CipherBytes(cs) == [p \in 1..(2 * Len(cs)) |-> BE16(cs[(p + 1) \div 2])[((p - 1) % 2) + 1]]

\* the data a generated extension of type t carries
ExtData(t) == CASE t = SNI -> <<0, 0>>
                [] t = ALPN -> <<2>>
                [] OTHER -> <<>>

RECURSIVE ExtBytes(_)
ExtBytes(es) ==
    IF es = <<>> THEN <<>>
    ELSE IF Len(es) = 1
    THEN BE16(es[1]) \o BE16(Len(ExtData(es[1]))) \o ExtData(es[1])
    ELSE LET half == Len(es) \div 2
         IN ExtBytes(SubSeq(es, 1, half)) \o ExtBytes(SubSeq(es, half + 1, Len(es)))

\* the 32 random bytes: zero but for the last two
RandomBytes(h) == [i \in 1..RandomLen |->
                     IF i = RandomLen - 1 THEN h.rnd30
                     ELSE IF i = RandomLen THEN h.rnd31 ELSE 0]

\* the cipher block: the codes and, where the ClientHello has one, a
\* trailing byte that makes the length of the block odd
CipherBlock(h) ==
    CipherBytes(h.ciphers) \o (IF "ctrail" \in DOMAIN h THEN h.ctrail ELSE <<>>)

\* the length the ClientHello declares for its extensions block: that of
\* the extensions, or the shorter one it is made to declare
DeclaredExtLen(h) == IF "elen" \in DOMAIN h THEN h.elen ELSE Len(ExtBytes(h.exts))

WireHello(h) ==
    LET body == BE16(h.cver) \o RandomBytes(h) \o <<Len(h.sid)>> \o h.sid
                \o BE16(Len(CipherBlock(h))) \o CipherBlock(h)
                \o <<Len(h.comp)>> \o h.comp
                \o BE16(DeclaredExtLen(h)) \o ExtBytes(h.exts)
        hs == <<CLIENT_HELLO>> \o BE24(Len(body)) \o body
    IN <<HANDSHAKE>> \o BE16(h.recver) \o BE16(Len(hs)) \o hs

\* the changes made to a record: another content type, another handshake
\* type, another declared record length (bytes 3-4), another declared
\* handshake length (bytes 6-8), or both lengths
LengthTampers == {"reclen", "hslen", "lens"}

Tampers == {"none", "ctype", "hstype"} \cup LengthTampers

Tampered(buf, t) ==
    [i \in 1..Len(buf) |->
        IF t = "ctype" /\ i = 1 THEN 23
        ELSE IF t = "hstype" /\ i = 6 THEN 2
        ELSE IF t \in {"reclen", "lens"} /\ i \in {4, 5} THEN 255
        ELSE IF t \in {"hslen", "lens"} /\ i \in {7, 8, 9} THEN (buf[i] + 1) % 256
        ELSE buf[i]]

Payload(w) == Tampered(SubSeq(WireHello(w.hello), 1, w.cut), w.tamper)

CipherCodes == {4865, 4866}      \* 0x1301, 0x1302

ExtTypes == {SNI, ALPN}

Sids == {<<>>, <<7>>}

\* the ClientHellos of the general family
Hellos ==
    {[recver |-> 771, cver |-> 771, rnd30 |-> r, rnd31 |-> 0, sid |-> sid,
      ciphers |-> cs, comp |-> <<0>>, exts |-> es] :
        r \in {0, 200}, sid \in Sids,
        cs \in SeqsUpTo(CipherCodes, MaxSuites), es \in SeqsUpTo(ExtTypes, MaxExts)}
    \cup
    {[recver |-> 771, cver |-> 771, rnd30 |-> Len(sid) + 2, rnd31 |-> 0, sid |-> sid,
      ciphers |-> cs, comp |-> <<0>>, exts |-> es] :
        sid \in Sids,
        cs \in SeqsUpTo(CipherCodes, MaxSuites), es \in SeqsUpTo(ExtTypes, MaxExts)}

\* ClientHellos with a cipher block of odd length (a trailing byte 0x13
\* after the codes)
OddHellos ==
    {[recver |-> 771, cver |-> 771, rnd30 |-> 2, rnd31 |-> 0, sid |-> <<>>,
      ciphers |-> cs, ctrail |-> <<19>>, comp |-> <<0>>, exts |-> es] :
        cs \in SeqsUpTo(CipherCodes, MaxSuites), es \in {<<>>, <<SNI>>, <<SNI, ALPN>>}}

\* ClientHellos that declare an extensions block shorter than their
\* extensions
ShortBlockHellos ==
    UNION {{[recver |-> 771, cver |-> 771, rnd30 |-> 2, rnd31 |-> 0, sid |-> <<>>,
             ciphers |-> <<4865>>, comp |-> <<0>>, exts |-> es, elen |-> n] :
               n \in 0..(Len(ExtBytes(es)) - 1)} :
           es \in SeqsUpTo(ExtTypes, MaxExts)}

MalformedHellos == OddHellos \cup ShortBlockHellos

\* ClientHellos with long lists: n times the same cipher suite, m times
\* the same extension
LongLens == {7, 99, 100, 150}

LongHellos ==
    {[recver |-> 771, cver |-> 771, rnd30 |-> 2, rnd31 |-> 0, sid |-> <<>>,
      ciphers |-> [i \in 1..n |-> 4865], comp |-> <<0>>, exts |-> [i \in 1..m |-> ALPN]] :
        n \in LongLens, m \in LongLens}

\* ClientHellos in records of every version the encoder names and of
\* others, the client version inside the ClientHello being another one
RecordVersions == {769, 770, 771, 772, 0, 768, 773, 65535}

VersionHellos ==
    {[recver |-> rv, cver |-> cv, rnd30 |-> 2, rnd31 |-> 0, sid |-> <<>>,
      ciphers |-> <<4865>>, comp |-> <<0>>, exts |-> <<SNI>>] :
        rv \in RecordVersions, cv \in {769, 771, 772}}


\* the ClientHellos of the end-to-end scenario: four cipher suites in any
\* wire order, the extensions 0, 16, 11, 10 in two wire orders
E2ECiphers == {4865, 4866, 4867, 4868}

E2EHellos ==
    {[recver |-> 771, cver |-> 771, rnd30 |-> r, rnd31 |-> 0, sid |-> <<>>,
      ciphers |-> cs, comp |-> <<0>>, exts |-> es] :
        r \in {0, 2},
        cs \in {p \in [1..4 -> E2ECiphers] : \A i, j \in 1..4 : p[i] = p[j] => i = j},
        es \in {<<0, 16, 11, 10>>, <<10, 11, 16, 0>>}}

\* every prefix of a ClientHello; the tampered ones whole or cut within the
\* record and handshake headers (those with changed lengths: whole, cut
\* after the record header or cut after the handshake header).  full is the length of the whole record.
WireOf(h, k, t) == [hello |-> h, cut |-> k, tamper |-> t, full |-> Len(WireHello(h))]

CutsOf(h, t) == IF t = "none" THEN 0..Len(WireHello(h))
                ELSE IF t \in LengthTampers
                THEN {RecordHeaderLen, HelloOffset, Len(WireHello(h))}
                ELSE (0..HelloOffset) \cup {Len(WireHello(h))}

E2EWires ==
    {[hello |-> h, cut |-> Len(WireHello(h)), tamper |-> "none",
      full |-> Len(WireHello(h))] : h \in E2EHellos}

NoWire == [hello |-> <<>>, cut |-> 0, tamper |-> "none", full |-> 0]

NoData == [kind |-> "unset"]

NoJa4 == ""

NoOrig == [kind |-> "unset"]

NoFrame == [pc |-> "none"]

(***************************************************************************)
(* Idle values of the parts of the state a specification does not use.     *)
(***************************************************************************)
ParseIdle ==
    /\ raw = <<>> /\ wire = NoWire /\ tls_data = NoData
    /\ ja4 = NoJa4 /\ orig = NoOrig /\ ppc = "idle" /\ frame = NoFrame

SessionIdle ==
    /\ processed = <<>> /\ seen_connections = {} /\ signatures = <<>>
    /\ calls = <<>>

AggIdle ==
    /\ framework_signatures = <<>> /\ results = <<>> /\ printed = <<>>
    /\ db = <<>> /\ apc = "idle"

(***************************************************************************)
(* One payload through the pipeline of extract_ja4_from_pcap, lines        *)
(* 193-198: parse, then encode when the parse gave a ClientHelloInfo, skip *)
(* the packet otherwise.                                                   *)
(***************************************************************************)
InitParse ==
    /\ \/ \E h \in Hellos, t \in Tampers : \E k \in CutsOf(h, t) : wire = WireOf(h, k, t)
       \/ \E h \in MalformedHellos : \E k \in CutsOf(h, "none") : wire = WireOf(h, k, "none")
       \/ wire \in E2EWires
       \/ \E h \in VersionHellos : wire = WireOf(h, Len(WireHello(h)), "none")
    /\ raw = Payload(wire)
    /\ tls_data = NoData /\ ja4 = NoJa4 /\ orig = NoOrig /\ ppc = "raw"
    /\ frame = NoFrame
    /\ SessionIdle /\ AggIdle

\* tls_data = parse_tls_client_hello(raw_data)
Parse ==
    /\ ppc = "raw"
    /\ tls_data' = parse_tls_client_hello(raw)
    /\ ppc' = "parsed"
    /\ UNCHANGED <<raw, wire, ja4, orig, frame, sessionVars, aggVars>>

\* if tls_data and tls_data.get('valid')
Accepted(td) == td.kind = "ClientHelloInfo" /\ td.valid

\* ja4 = calculate_ja4_improved(tls_data)
Encode ==
    /\ ppc = "parsed"
    /\ Accepted(tls_data)
    /\ ja4' = calculate_ja4_improved(tls_data)
    /\ orig' = [kind |-> "set", info |-> tls_data, ja4 |-> ja4']
    /\ ppc' = "encoded"
    /\ UNCHANGED <<raw, wire, tls_data, frame, sessionVars, aggVars>>

\* the packet is passed over: the loop goes on with the next one
Skip ==
    /\ ppc = "parsed"
    /\ ~Accepted(tls_data)
    /\ tls_data.kind = "None"
    /\ ppc' = "skipped"
    /\ UNCHANGED <<raw, wire, tls_data, ja4, orig, frame, sessionVars, aggVars>>

NextParse == Parse \/ Encode \/ Skip

SpecParse == InitParse /\ [][NextParse]_vars

(***************************************************************************)
(* Properties of the parser.                                               *)
(***************************************************************************)
Parsed == ppc \in {"parsed", "encoded", "skipped"} /\ wire # NoWire

\* raw is a whole, untouched ClientHello record whose declared lengths are
\* those of its fields
WellFormed(w) ==
    /\ w # NoWire /\ w.tamper = "none" /\ w.cut = w.full
    /\ "ctrail" \notin DOMAIN w.hello /\ "elen" \notin DOMAIN w.hello

\* C1: a well-formed ClientHello parses to the cipher codes and the
\* extension types on the wire, in wire order, whatever its client version,
\* random and session ID: the session-ID length is the byte after the
\* 2-byte client version and the 32-byte random.
C1_WellFormedParses ==
    (Parsed /\ WellFormed(wire)) =>
        /\ tls_data.kind = "ClientHelloInfo"
        /\ tls_data.cipher_suites = wire.hello.ciphers
        /\ tls_data.extensions = wire.hello.exts

\* C2: the synthetic ClientHello with record version 0x0303, the cipher
\* suites 0x1301..0x1304 in any wire order and the extensions 0, 16, 11, 10
\* gets the fingerprint t12d0404h2_<hash of the sorted ciphers>_<hash of
\* the sorted extensions>.
C2_EndToEnd ==
    (ppc \in {"encoded", "skipped"} /\ wire \in E2EWires) =>
        /\ ppc = "encoded"
        /\ ja4 = "t12d0404h2" \o "_"
                 \o Sha256Hex12(JoinHex(<<4865, 4866, 4867, 4868>>)) \o "_"
                 \o Sha256Hex12(JoinHex(<<0, 10, 11, 16>>))

(***************************************************************************)
(* The variable-length fields of a buffer at the positions where the       *)
(* parser reads them: the session-ID length at SessionIdOffset, the cipher *)
(* block after the session ID, the compression methods after the cipher    *)
(* codes (an odd block length L takes L + 1 bytes of codes), the           *)
(* extensions block after the compression methods.                         *)
(***************************************************************************)
SidEnd(buf) == SessionIdOffset + 1 + At(buf, SessionIdOffset)

CipherEnd(buf) == LET L == U16(buf, SidEnd(buf)) IN SidEnd(buf) + 2 + L + (L % 2)

CompEnd(buf) == CipherEnd(buf) + 1 + At(buf, CipherEnd(buf))

SidOverrun(buf) == Len(buf) > SessionIdOffset /\ SidEnd(buf) > Len(buf)

CipherOverrun(buf) ==
    /\ Len(buf) > SessionIdOffset
    /\ SidEnd(buf) + 2 <= Len(buf)
    /\ SidEnd(buf) + 2 + U16(buf, SidEnd(buf)) > Len(buf)

CompOverrun(buf) ==
    /\ Len(buf) > SessionIdOffset
    /\ SidEnd(buf) + 2 <= Len(buf)
    /\ CipherEnd(buf) < Len(buf)
    /\ CompEnd(buf) > Len(buf)

ExtOverrun(buf) ==
    /\ Len(buf) > SessionIdOffset
    /\ SidEnd(buf) + 2 <= Len(buf)
    /\ CipherEnd(buf) < Len(buf)
    /\ CompEnd(buf) + 2 <= Len(buf)
    /\ CompEnd(buf) + 2 + U16(buf, CompEnd(buf)) > Len(buf)

\* raw passes the record and handshake header checks
IsHello(buf) == Len(buf) > HelloOffset /\ At(buf, 0) = HANDSHAKE /\ At(buf, 5) = CLIENT_HELLO

\* the parser reads the session-ID length where the wire has it: the byte
\* it takes for the length (the last but one of the random) happens to be the
\* session-ID length plus the two bytes of the client version
Aligned(w) == w # NoWire /\ w.tamper = "none" /\ w.hello.rnd30 = Len(w.hello.sid) + 2

C8_TotalAndInBounds ==
    Parsed =>
        /\ tls_data.kind \in {"ClientHelloInfo", "None"}
        /\ ~tls_data.oob
        /\ (Accepted(tls_data) \/ tls_data.kind = "None")

\* a ClientHello cut inside its extensions block has been parsed
C8_Witness ==
    /\ Parsed /\ IsHello(raw) /\ wire.tamper = "none"
    /\ wire.cut < wire.full
    /\ wire.cut > SessionIdOffset
    /\ ExtOverrun(raw)
    /\ tls_data.kind = "ClientHelloInfo"

\* the extensions block as the buffer declares it: its first byte and its
\* declared length E
ExtStart(buf) == CompEnd(buf) + 2

DeclaredE(buf) == U16(buf, CompEnd(buf))

\* the extension types whose 4-byte header lies inside both the declared
\* block and the buffer, up to the first header that does not
RECURSIVE HeadersInside(_, _, _)
HeadersInside(buf, pos, types) ==
    IF pos + 4 <= ExtStart(buf) + DeclaredE(buf) /\ pos + 4 <= Len(buf)
    THEN HeadersInside(buf, pos + 4 + U16(buf, pos + 2), Append(types, U16(buf, pos)))
    ELSE types

\* C18: the extension types returned are those whose 4-byte header lies
\* entirely inside both the declared extensions block and the buffer, in
\* wire order, up to the first header that would exceed either (checked on
\* the buffers whose fields the parser finds where the wire has them).
C18_ExtensionHeadersInsideBlock ==
    (Parsed /\ IsHello(raw) /\ Aligned(wire) /\ tls_data.kind = "ClientHelloInfo")
        => tls_data.extensions = HeadersInside(raw, ExtStart(raw), <<>>)

\* the cipher block as the buffer declares it: its first byte and its
\* declared length L
CipherStart(buf) == SidEnd(buf) + 2

DeclaredL(buf) == U16(buf, SidEnd(buf))

\* C19: for a cipher block whose declared length L fits in the buffer the
\* cipher codes returned are the L \div 2 big-endian pairs of the block in
\* wire order; the trailing byte of a block of odd length makes no code.
C19_FloorHalfCipherCodes ==
    (Parsed /\ IsHello(raw) /\ Aligned(wire) /\ tls_data.kind = "ClientHelloInfo"
       /\ CipherStart(raw) + DeclaredL(raw) <= Len(raw))
        => tls_data.cipher_suites
             = [i \in 1..(DeclaredL(raw) \div 2) |-> U16(raw, CipherStart(raw) + 2 * (i - 1))]

\* C20: a ClientHelloInfo comes only from a buffer of at least 5 bytes
\* whose byte 0 is 0x16 and whose byte 5 is 0x01; a buffer of 0..4 bytes,
\* a buffer with another content type and a handshake record of another
\* message type give None.
C20_OnlyClientHelloRecords ==
    Parsed =>
        /\ tls_data.kind = "ClientHelloInfo" =>
              /\ Len(raw) >= RecordHeaderLen
              /\ At(raw, 0) = HANDSHAKE
              /\ At(raw, 5) = CLIENT_HELLO
        /\ Len(raw) < RecordHeaderLen => tls_data = None
        /\ (Len(raw) >= 1 /\ At(raw, 0) # HANDSHAKE) => tls_data = None
        /\ (Len(raw) >= TypeOffset /\ At(raw, 0) = HANDSHAKE /\ At(raw, 5) # CLIENT_HELLO)
              => tls_data = None

\* a whole record with two cipher suites and two extensions, all its
\* fields where the parser reads them, but of another handshake type, has
\* been passed over
C20_Witness ==
    /\ ppc = "skipped"
    /\ wire.tamper = "hstype" /\ wire.cut = wire.full
    /\ wire.hello.rnd30 = Len(wire.hello.sid) + 2
    /\ Len(wire.hello.ciphers) = 2 /\ Len(wire.hello.exts) = 2
    /\ At(raw, 0) = HANDSHAKE /\ At(raw, 5) # CLIENT_HELLO
    /\ tls_data = None

\* the tag of a record-header version
RecordVersionTag(v) ==
    IF v = 769 THEN "t10" ELSE IF v = 770 THEN "t11" ELSE IF v = 771 THEN "t12" ELSE "t13"

\* C23: the version tag of the fingerprint is determined by the version in
\* the record header (bytes 1-2) alone: 0x0301 gives t10, 0x0302 t11,
\* 0x0303 t12, 0x0304 t13 and every other 16-bit value t13; the client
\* version inside the ClientHello has no influence.
C23_TagFromRecordVersion ==
    /\ (Parsed /\ tls_data.kind = "ClientHelloInfo") => tls_data.version = U16(raw, 1)
    /\ (Parsed /\ ppc = "encoded") =>
          /\ SubSeq(ja4, 1, 3) = RecordVersionTag(U16(raw, 1))
          /\ SubSeq(ja4, 1, 3) = RecordVersionTag(wire.hello.recver)

\* a ClientHello with client version 0x0304 in a record of version 0x0301
\* has got the tag t10
C23_Witness ==
    /\ ppc = "encoded"
    /\ wire.hello.recver = 769 /\ wire.hello.cver = 772
    /\ U16(raw, 1) = 769 /\ U16(raw, HelloOffset) = 772
    /\ SubSeq(ja4, 1, 3) = "t10"

\* the extension types the parser has recorded
Recorded(td) == {td.extensions[i] : i \in 1..Len(td.extensions)}

\* C24: alpn is true exactly when type 16 is in the returned extension
\* list and sni exactly when type 0 is; the fingerprint has the flag d
\* exactly when type 0 was recorded (i otherwise) and h2 exactly when type
\* 16 was recorded (00 otherwise).
C24_FlagsFromRecordedExtensions ==
    /\ (Parsed /\ tls_data.kind = "ClientHelloInfo") =>
          /\ tls_data.alpn = (ALPN \in Recorded(tls_data))
          /\ tls_data.sni = (SNI \in Recorded(tls_data))
    /\ (Parsed /\ ppc = "encoded") =>
          /\ SubSeq(ja4, 4, 4) = (IF SNI \in Recorded(tls_data) THEN "d" ELSE "i")
          /\ SubSeq(ja4, 9, 10) = (IF ALPN \in Recorded(tls_data) THEN "h2" ELSE "00")

\* a ClientHello that carries the extensions 0 and 16 and declares an
\* extensions block that ends inside the second one: only type 0 was
\* recorded, the flags are d and 00
C24_Witness ==
    /\ ppc = "encoded"
    /\ wire.hello.exts = <<SNI, ALPN>>
    /\ tls_data.extensions = <<SNI>>
    /\ tls_data.sni /\ ~tls_data.alpn
    /\ SubSeq(ja4, 4, 4) = "d" /\ SubSeq(ja4, 9, 10) = "00"

\* the buffer before its length fields were changed
Untampered(w) == SubSeq(WireHello(w.hello), 1, w.cut)

\* C25: the record length (bytes 3-4) and the handshake length (bytes 6-8)
\* are never read: a buffer and the buffer of the same length that differs
\* from it in those bytes only have the same parse result.
C25_LengthsNotRead ==
    (Parsed /\ wire.tamper \in LengthTampers) =>
        /\ Len(raw) = Len(Untampered(wire))
        /\ \A i \in 1..Len(raw) : raw[i] # Untampered(wire)[i] => i \in {4, 5, 7, 8, 9}
        /\ tls_data = parse_tls_client_hello(Untampered(wire))

\* a whole ClientHello with two cipher suites whose record length and
\* handshake length were both changed has been parsed to a ClientHelloInfo
C25_Witness ==
    /\ Parsed /\ wire.tamper = "lens" /\ wire.cut = wire.full
    /\ wire.hello.rnd30 = Len(wire.hello.sid) + 2
    /\ raw # Untampered(wire)
    /\ U16(raw, 3) # Len(raw) - RecordHeaderLen
    /\ tls_data.kind = "ClientHelloInfo"
    /\ tls_data.cipher_suites = wire.hello.ciphers /\ Len(wire.hello.ciphers) = 2

\* the cipher loop leaves through its break: fewer than two bytes are left
\* before all the declared codes were read
BreakTaken(buf) ==
    /\ Len(buf) > SessionIdOffset
    /\ SidEnd(buf) + 2 <= Len(buf)
    /\ Len(buf) < CipherEnd(buf)

\* the offset in the record at which the compression methods end and the
\* length of the extensions block begins
WireCompEnd(w) == w.full - Len(ExtBytes(w.hello.exts)) - 2

\* C27: truncation before the extensions block is always a failure: a
\* ClientHello whose session ID, cipher block or compression block is
\* declared longer than the buffer gives None; the cipher loop's break never
\* leads to a ClientHelloInfo with a shortened cipher list.
C27_TruncationBeforeExtensionsFails ==
    (Parsed /\ wire.tamper = "none" /\ wire.cut < WireCompEnd(wire))
        => tls_data.kind = "None"

\* The same at the positions where the parser reads the fields: there a
\* session ID, a cipher block or a compression block longer than the buffer
\* gives None, the break of the cipher loop gives None, and a
\* ClientHelloInfo has a code for every two bytes of the cipher block it
\* read.  On the ClientHellos whose fields the parser finds where the wire
\* has them, a cut before the end of the compression methods gives None.
TruncationAtReadPositionsFails ==
    Parsed =>
        /\ (IsHello(raw) /\ (SidOverrun(raw) \/ CipherOverrun(raw) \/ CompOverrun(raw)
                              \/ BreakTaken(raw))) => tls_data.kind = "None"
        /\ tls_data.kind = "ClientHelloInfo" =>
              2 * Len(tls_data.cipher_suites) = DeclaredL(raw) + (DeclaredL(raw) % 2)
        /\ (Aligned(wire) /\ wire.cut < WireCompEnd(wire)) => tls_data.kind = "None"

(***************************************************************************)
(* parse_tls_client_hello turn by turn: one step for the code before the   *)
(* cipher loop, one for every turn of the cipher loop, one for the code    *)
(* between the two loops, one for every turn of the extension loop, one    *)
(* for the return statement after it, one for handing the result to the    *)
(* caller.  frame holds the locals of the call; the result is then encoded *)
(* or passed over as in extract_ja4_from_pcap.                             *)
(***************************************************************************)
Returning(result) == [pc |-> "return", result |-> result]

\* lines 22-73: the code before the cipher loop
BeforeCipherLoop(buf) ==
    IF Len(buf) < RecordHeaderLen THEN Returning(None)
    ELSE IF ~CanRead(buf, 0, 1) THEN Returning(Raised)
    ELSE IF At(buf, 0) # HANDSHAKE THEN Returning(None)
    ELSE IF ~CanRead(buf, 1, 2) THEN Returning(Raised)
    ELSE IF Len(buf) < TypeOffset THEN Returning(None)
    ELSE IF ~CanRead(buf, 5, 1) THEN Returning(Raised)
    ELSE IF At(buf, 5) # CLIENT_HELLO THEN Returning(None)
    ELSE IF Len(buf) <= HelloOffset THEN Returning(None)
    ELSE IF Len(buf) <= SessionIdOffset THEN Returning(None)
    ELSE IF ~CanRead(buf, SessionIdOffset, 1) THEN Returning(Caught)
    ELSE
    LET offset2 == AfterSessionId(buf, SessionIdOffset) IN
    IF Len(buf) <= offset2 + 1 THEN Returning(None)
    ELSE IF ~CanRead(buf, offset2, 2) THEN Returning(Caught)
    ELSE [pc |-> "ciphers", version |-> U16(buf, 1),
          cipher_suites_len |-> U16(buf, offset2), offset |-> offset2 + 2,
          i |-> 0, cipher_suites |-> <<>>]

\* lines 82-93: the code between the cipher loop and the extension loop
AfterCipherLoop(buf, f) ==
    IF Len(buf) <= f.offset THEN Returning(None)
    ELSE IF ~CanRead(buf, f.offset, 1) THEN Returning(Caught)
    ELSE
    LET offset4 == AfterCompression(buf, f.offset) IN
    IF Len(buf) <= offset4 + 1 THEN Returning(None)
    ELSE IF ~CanRead(buf, offset4, 2) THEN Returning(Caught)
    ELSE [pc |-> "extensions", version |-> f.version, cipher_suites |-> f.cipher_suites,
          extensions_len |-> U16(buf, offset4), offset |-> offset4 + 2,
          ext_offset |-> offset4 + 2, extensions |-> <<>>]

\* the ClientHellos parsed turn by turn: those with an empty session ID,
\* the malformed ones, cut within the headers or anywhere from the
\* session-ID offset on, and the long ones whole
StepHellos == {h \in Hellos : h.sid = <<>>} \cup MalformedHellos

StepCuts(h) == {0, RecordHeaderLen, HelloOffset} \cup (SessionIdOffset..Len(WireHello(h)))

InitSteps ==
    /\ \/ \E h \in StepHellos : \E k \in StepCuts(h) : wire = WireOf(h, k, "none")
       \/ \E h \in LongHellos : wire = WireOf(h, Len(WireHello(h)), "none")
    /\ raw = Payload(wire)
    /\ tls_data = NoData /\ ja4 = NoJa4 /\ orig = NoOrig /\ ppc = "raw"
    /\ frame = NoFrame
    /\ SessionIdle /\ AggIdle

\* the call: the code up to the cipher loop
Enter ==
    /\ ppc = "raw"
    /\ frame' = BeforeCipherLoop(raw)
    /\ ppc' = "parsing"
    /\ UNCHANGED <<raw, wire, tls_data, ja4, orig, sessionVars, aggVars>>

\* one turn of for i in range(0, cipher_suites_len, 2), lines 75-80
CipherTurn ==
    /\ ppc = "parsing" /\ frame.pc = "ciphers"
    /\ frame.i < frame.cipher_suites_len
    /\ ~CipherLoopBreak(raw, frame.offset)
    /\ frame' = IF ~CanRead(raw, frame.offset, 2) THEN Returning(Caught)
                 ELSE [frame EXCEPT !.cipher_suites = Append(@, U16(raw, frame.offset)),
                                    !.offset = @ + 2, !.i = @ + 2]
    /\ UNCHANGED <<raw, wire, tls_data, ja4, orig, ppc, sessionVars, aggVars>>

\* the cipher loop ends, by its range or by its break, lines 75-77; the
\* code up to the extension loop follows
CipherExit ==
    /\ ppc = "parsing" /\ frame.pc = "ciphers"
    /\ frame.i >= frame.cipher_suites_len \/ CipherLoopBreak(raw, frame.offset)
    /\ frame' = AfterCipherLoop(raw, frame)
    /\ UNCHANGED <<raw, wire, tls_data, ja4, orig, ppc, sessionVars, aggVars>>

\* one turn of the while loop, lines 95-99
ExtTurn ==
    /\ ppc = "parsing" /\ frame.pc = "extensions"
    /\ ExtLoopCond(raw, frame.ext_offset, frame.offset, frame.extensions_len)
    /\ frame' = IF ~CanRead(raw, frame.ext_offset, 2) \/ ~CanRead(raw, frame.ext_offset + 2, 2)
                 THEN Returning(Caught)
                 ELSE [frame EXCEPT !.extensions = Append(@, U16(raw, frame.ext_offset)),
                                    !.ext_offset = NextExtOffset(raw, @)]
    /\ UNCHANGED <<raw, wire, tls_data, ja4, orig, ppc, sessionVars, aggVars>>

\* the while loop ends, line 95; the dict is built, lines 101-114
ExtExit ==
    /\ ppc = "parsing" /\ frame.pc = "extensions"
    /\ ~ExtLoopCond(raw, frame.ext_offset, frame.offset, frame.extensions_len)
    /\ frame' = Returning(ClientHelloInfo(frame.version, frame.cipher_suites, frame.extensions))
    /\ UNCHANGED <<raw, wire, tls_data, ja4, orig, ppc, sessionVars, aggVars>>

\* the caller gets the result: tls_data = parse_tls_client_hello(raw_data)
Return ==
    /\ ppc = "parsing" /\ frame.pc = "return"
    /\ tls_data' = frame.result
    /\ ppc' = "parsed"
    /\ UNCHANGED <<raw, wire, ja4, orig, frame, sessionVars, aggVars>>

\* the steps of one call of parse_tls_client_hello
Call == Enter \/ CipherTurn \/ CipherExit \/ ExtTurn \/ ExtExit \/ Return

NextSteps ==
    Enter \/ CipherTurn \/ CipherExit \/ ExtTurn \/ ExtExit \/ Return \/ Encode \/ Skip

\* the interpreter runs a call as long as it has a step to take
SpecSteps == InitSteps /\ [][NextSteps]_vars /\ WF_vars(Call)

\* the turn-by-turn run returns what parse_tls_client_hello gives as a whole
StepsGiveParse ==
    (ppc = "parsed" /\ wire.hello \notin LongHellos) => tls_data = parse_tls_client_hello(raw)

CeilHalf(n) == (n + 1) \div 2

\* C26: both loops terminate on every input: the cipher loop makes at most
\* ceil(L/2) turns for a declared block of L bytes; every turn of the
\* extension loop advances the position by at least 4 bytes and the
\* position is bounded by the buffer length, so at most (buffer length)/4
\* extensions are recorded; every call returns.
C26_LoopsTerminate ==
    /\ [][(CipherTurn =>
              (/\ frame.i < frame.cipher_suites_len
               /\ frame'.pc = "ciphers" /\ frame'.i = frame.i + 2
               /\ Len(frame'.cipher_suites) = Len(frame.cipher_suites) + 1
               /\ Len(frame'.cipher_suites) <= CeilHalf(frame.cipher_suites_len)))
           /\ (ExtTurn =>
              (/\ frame.ext_offset + 4 <= Len(raw)
               /\ frame'.pc = "extensions"
               /\ frame'.ext_offset >= frame.ext_offset + 4
               /\ Len(frame'.extensions) = Len(frame.extensions) + 1
               /\ 4 * Len(frame'.extensions) <= Len(raw)))]_vars
    /\ []((ppc = "parsed" /\ tls_data.kind = "ClientHelloInfo") =>
             4 * Len(tls_data.extensions) <= Len(raw))
    /\ <>(ppc \in {"parsed", "encoded", "skipped"})

\* a ClientHello with 150 cipher suites and 150 extensions has been parsed
\* in 150 turns of either loop
C26_Witness ==
    /\ ppc = "parsed" /\ wire.hello \in LongHellos
    /\ frame.pc = "return"
    /\ tls_data.kind = "ClientHelloInfo"
    /\ Len(tls_data.cipher_suites) = 150 /\ Len(tls_data.extensions) = 150
    /\ U16(raw, SidEnd(raw)) = 300

DecimalDigits == <<"0", "1", "2", "3", "4", "5", "6", "7", "8", "9">>

\* the two decimal digits of n < 100
TwoDigits(n) == DecimalDigits[(n \div 10) + 1] \o DecimalDigits[(n % 10) + 1]

\* C21: the cipher count and the extension count of the fingerprint are
\* min(n, 99) of the list length n, written with exactly two decimal digits:
\* 0 gives 00, 7 gives 07, every n >= 99 (150, say) gives 99.
C21_CountFields ==
    (ppc = "encoded") =>
        LET nc == Len(tls_data.cipher_suites)
            ne == Len(tls_data.extensions)
        IN /\ SubSeq(ja4, 5, 6) = TwoDigits(IF nc < 99 THEN nc ELSE 99)
           /\ SubSeq(ja4, 7, 8) = TwoDigits(IF ne < 99 THEN ne ELSE 99)
           /\ SubSeq(ja4, 9, 11) \in {"00_", "h2_"}
           /\ (nc = 0) => (SubSeq(ja4, 5, 6) = "00")
           /\ (ne = 7) => (SubSeq(ja4, 7, 8) = "07")
           /\ (nc >= 99) => (SubSeq(ja4, 5, 6) = "99")
           /\ (ne >= 99) => (SubSeq(ja4, 7, 8) = "99")

\* a ClientHello with 150 cipher suites and 7 extensions has the count
\* fields 99 and 07
C21_Witness ==
    /\ ppc = "encoded"
    /\ Len(tls_data.cipher_suites) = 150 /\ Len(tls_data.extensions) = 7
    /\ SubSeq(ja4, 5, 8) = "9907"

IsHexChar(c) == \E k \in 1..16 : HexChars[k] = c

IsDecimalDigit(c) == \E k \in 1..10 : DecimalDigits[k] = c

\* the grammar of a fingerprint: 36 characters
Grammar(s) ==
    /\ Len(s) = 36
    /\ SubSeq(s, 1, 3) \in {"t10", "t11", "t12", "t13"}
    /\ SubSeq(s, 4, 4) \in {"d", "i"}
    /\ \A k \in 5..8 : IsDecimalDigit(SubSeq(s, k, k))
    /\ SubSeq(s, 9, 10) \in {"00", "h2"}
    /\ SubSeq(s, 11, 11) = "_"
    /\ \A k \in 12..23 : IsHexChar(SubSeq(s, k, k))
    /\ SubSeq(s, 24, 24) = "_"
    /\ \A k \in 25..36 : IsHexChar(SubSeq(s, k, k))

\* C22: the encoder is total on every ClientHelloInfo the parser can
\* return, and its value has exactly 36 characters: the tag t10, t11, t12
\* or t13, d or i, two digits, two digits, 00 or h2, an underscore, 12
\* lowercase hex characters, an underscore, 12 lowercase hex characters.
C22_FingerprintGrammar ==
    /\ (ppc = "parsed" /\ tls_data.kind = "ClientHelloInfo") =>
          /\ Accepted(tls_data)
          /\ Grammar(calculate_ja4_improved(tls_data))
    /\ (ppc = "encoded") => Grammar(ja4)

\* the ClientHello with 100 cipher suites and 100 extensions has got a
\* fingerprint of 36 characters
C22_Witness ==
    /\ ppc = "encoded"
    /\ Len(tls_data.cipher_suites) = 100 /\ Len(tls_data.extensions) = 100
    /\ Len(ja4) = 36 /\ SubSeq(ja4, 1, 11) = "t12i9999h2_"

(***************************************************************************)
(* The encoder on its own: a ClientHelloInfo is encoded, then the same     *)
(* client's lists come again in another wire order (two neighbours         *)
(* swapped) and are encoded again.                                         *)
(***************************************************************************)
EncVersions == {769, 771, 772, 768}

Infos ==
    {[kind |-> "ClientHelloInfo", oob |-> FALSE, version |-> v,
      cipher_suites |-> cs, extensions |-> es, alpn |-> a, sni |-> n, valid |-> TRUE] :
        v \in EncVersions, cs \in SeqsUpTo(CipherCodes, MaxSuites),
        es \in SeqsUpTo(ExtTypes, MaxExts), a \in BOOLEAN, n \in BOOLEAN}

Swap(s, i) == [k \in 1..Len(s) |-> IF k = i THEN s[i + 1] ELSE IF k = i + 1 THEN s[i] ELSE s[k]]

InitEnc ==
    /\ tls_data \in Infos
    /\ raw = <<>> /\ wire = NoWire /\ ja4 = NoJa4 /\ orig = NoOrig /\ ppc = "parsed"
    /\ frame = NoFrame
    /\ SessionIdle /\ AggIdle

ReorderCiphers ==
    /\ ppc = "encoded"
    /\ \E i \in 1..(Len(tls_data.cipher_suites) - 1) :
          tls_data' = [tls_data EXCEPT !.cipher_suites = Swap(@, i)]
    /\ ja4' = calculate_ja4_improved(tls_data')
    /\ UNCHANGED <<raw, wire, orig, ppc, frame, sessionVars, aggVars>>

ReorderExtensions ==
    /\ ppc = "encoded"
    /\ \E i \in 1..(Len(tls_data.extensions) - 1) :
          tls_data' = [tls_data EXCEPT !.extensions = Swap(@, i)]
    /\ ja4' = calculate_ja4_improved(tls_data')
    /\ UNCHANGED <<raw, wire, orig, ppc, frame, sessionVars, aggVars>>

NextEnc == Encode \/ ReorderCiphers \/ ReorderExtensions

SpecEnc == InitEnc /\ [][NextEnc]_vars

Count(s, x) == Cardinality({i \in 1..Len(s) : s[i] = x})

IsPermutation(s, t) ==
    /\ Len(s) = Len(t)
    /\ \A i \in 1..Len(s) : Count(s, s[i]) = Count(t, s[i])

\* C9: two ClientHelloInfo values with the same version, sni and alpn whose
\* cipher lists are permutations of each other and whose extension lists
\* are permutations of each other get the same fingerprint.
C9_OrderInvariant ==
    (ppc = "encoded" /\ orig.kind = "set"
       /\ tls_data.version = orig.info.version
       /\ tls_data.sni = orig.info.sni /\ tls_data.alpn = orig.info.alpn
       /\ IsPermutation(tls_data.cipher_suites, orig.info.cipher_suites)
       /\ IsPermutation(tls_data.extensions, orig.info.extensions))
        => ja4 = orig.ja4

\* both lists have been encoded in an order other than the first
C9_Witness ==
    /\ ppc = "encoded" /\ orig.kind = "set"
    /\ tls_data.cipher_suites # orig.info.cipher_suites
    /\ tls_data.extensions # orig.info.extensions
    /\ ja4 = orig.ja4

(***************************************************************************)
(* extract_ja4_from_pcap: one capture session.  A packet has an IP layer   *)
(* or not, a TCP layer or not, two endpoints and, with a Raw layer, a      *)
(* payload.  Addresses are numbered in the order of their strings.         *)
(***************************************************************************)
\* two ClientHellos the parser reads as the wire has them (byte 30 of the
\* random is the session-ID length plus 2), with different offers
HelloA == WireHello([recver |-> 771, cver |-> 771, rnd30 |-> 2, rnd31 |-> 0, sid |-> <<>>,
                     ciphers |-> <<4865, 4866>>, comp |-> <<0>>, exts |-> <<0, 16>>])

HelloB == WireHello([recver |-> 771, cver |-> 771, rnd30 |-> 2, rnd31 |-> 0, sid |-> <<>>,
                     ciphers |-> <<4866>>, comp |-> <<0>>, exts |-> <<0>>])

\* HelloA cut inside its cipher block
HelloCut == SubSeq(HelloA, 1, 47)

Packet(ip, tcp, src, sport, dst, dport, hasraw, payload) ==
    [ip |-> ip, tcp |-> tcp, src |-> src, sport |-> sport, dst |-> dst,
     dport |-> dport, hasraw |-> hasraw, raw |-> payload]

\* source and destination of the packets of the capture: an HTTPS flow in
\* both directions, a second HTTPS flow, a flow on another port
Directions == {<<1, 50000, 2, 443>>, <<2, 443, 1, 50000>>,
               <<1, 50001, 2, 443>>, <<1, 50000, 2, 8443>>}

Packets ==
    {Packet(TRUE, TRUE, d[1], d[2], d[3], d[4], TRUE, b) :
        d \in Directions, b \in {HelloA, HelloB, HelloCut}}
    \cup {Packet(TRUE, TRUE, d[1], d[2], d[3], d[4], FALSE, <<>>) : d \in Directions}
    \cup {Packet(FALSE, TRUE, 1, 50000, 2, 443, TRUE, HelloB),
          Packet(TRUE, FALSE, 1, 50000, 2, 443, TRUE, HelloB)}

\* sorted([(ip.src, tcp.sport), (ip.dst, tcp.dport)]): tuples compare by
\* address, then by port
EndpointLe(a, b) == a[1] < b[1] \/ (a[1] = b[1] /\ a[2] <= b[2])

\* a slip: the endpoints are taken as they come, source first
ConnId_Unsorted(pkt) == <<<<pkt.src, pkt.sport>>, <<pkt.dst, pkt.dport>>>>

\* a slip: the ports are left out of the identifier
ConnId_AddressesOnly(pkt) ==
    IF pkt.src <= pkt.dst THEN <<pkt.src, pkt.dst>> ELSE <<pkt.dst, pkt.src>>

\* conn_id = tuple(sorted([(ip.src, tcp.sport), (ip.dst, tcp.dport)]))
ConnId(pkt) ==
    LET a == <<pkt.src, pkt.sport>>
        b == <<pkt.dst, pkt.dport>>
    IN IF EndpointLe(a, b) THEN <<a, b>> ELSE <<b, a>>

\* a slip: every connection is taken for new
AlreadySeen_Never(conn_id, seen) == FALSE

\* if conn_id in seen_connections: continue
AlreadySeen(conn_id, seen) == conn_id \in seen

\* a slip: the connection is not remembered
Remember_Forget(seen, conn_id) == seen

\* a slip: only the latest connection is remembered
Remember_Latest(seen, conn_id) == {conn_id}

\* seen_connections.add(conn_id)
Remember(seen, conn_id) == seen \cup {conn_id}

\* a slip: the port is not looked at
NotHttps_Never(pkt) == FALSE

\* if tcp.dport != 443 and tcp.sport != 443: continue
NotHttps(pkt) == pkt.dport # HTTPS /\ pkt.sport # HTTPS

\* the dict appended to signatures
Observation(pkt, td) ==
    [signature |-> calculate_ja4_improved(td),
     src |-> pkt.src, dst |-> pkt.dst, sport |-> pkt.sport, dport |-> pkt.dport,
     version |-> td.version, ciphers |-> Len(td.cipher_suites),
     extensions |-> Len(td.extensions)]

\* a slip: the connection is remembered before its payload is looked at
MarkSeen_Early(seen, conn_id, td) == seen \cup {conn_id}

\* if tls_data and tls_data.get('valid'): seen_connections.add(conn_id)
MarkSeen(seen, conn_id, td) == IF Accepted(td) THEN Remember(seen, conn_id) ELSE seen

\* the locals seen_connections and signatures after one turn of the loop
Locals(seen, sigs, raised) == [seen_connections |-> seen, signatures |-> sigs, raised |-> raised]

\* the body of the loop "for pkt in packets", lines 172-209, on the locals
\* of the call; raised: an exception left parse_tls_client_hello
LoopBody(seen, sigs, pkt) ==
    IF ~pkt.ip \/ ~pkt.tcp THEN Locals(seen, sigs, FALSE)
    ELSE IF NotHttps(pkt) THEN Locals(seen, sigs, FALSE)
    ELSE IF AlreadySeen(ConnId(pkt), seen) THEN Locals(seen, sigs, FALSE)
    ELSE IF ~pkt.hasraw THEN Locals(seen, sigs, FALSE)
    ELSE LET td == parse_tls_client_hello(pkt.raw) IN
         IF td.kind = "Raised" THEN Locals(seen, sigs, TRUE)
         ELSE Locals(MarkSeen(seen, ConnId(pkt), td),
                     IF Accepted(td) THEN Append(sigs, Observation(pkt, td)) ELSE sigs,
                     FALSE)

Init ==
    /\ processed = <<>>
    /\ seen_connections = {}
    /\ signatures = <<>>
    /\ calls = <<>>
    /\ ParseIdle /\ AggIdle

\* one turn of the loop "for pkt in packets"
ProcessPacket(pkt) ==
    /\ Len(processed) < MaxPkts
    /\ processed' = Append(processed, pkt)
    /\ LET after == LoopBody(seen_connections, signatures, pkt) IN
       /\ ~after.raised
       /\ seen_connections' = after.seen_connections
       /\ signatures' = after.signatures
    /\ UNCHANGED <<calls, parseVars, aggVars>>

Next == \E pkt \in Packets : ProcessPacket(pkt)

Spec == Init /\ [][Next]_vars

(***************************************************************************)
(* Properties of the capture session.                                      *)
(***************************************************************************)
\* what the parser and the encoder give for the payloads of the packets
ParseOf == [b \in {HelloA, HelloB, HelloCut, <<>>} |-> parse_tls_client_hello(b)]

FingerprintOf ==
    [b \in {c \in DOMAIN ParseOf : ParseOf[c].kind = "ClientHelloInfo"} |->
        calculate_ja4_improved(ParseOf[b])]

\* the payload of the packet parses to a ClientHelloInfo
Parses(pkt) == pkt.hasraw /\ ParseOf[pkt.raw].kind = "ClientHelloInfo"

Fingerprint(pkt) == FingerprintOf[pkt.raw]

\* the flow of a TCP/IP packet: its unordered pair of endpoints
FlowKey(pkt) == {<<pkt.src, pkt.sport>>, <<pkt.dst, pkt.dport>>}

ObsFlow(o) == {<<o.src, o.sport>>, <<o.dst, o.dport>>}

\* the packets of flow k gone through so far that parse
ParsingOf(k) == {j \in 1..Len(processed) :
                    /\ processed[j].ip /\ processed[j].tcp
                    /\ FlowKey(processed[j]) = k
                    /\ Parses(processed[j])}

FlowsSoFar == {FlowKey(processed[j]) : j \in {i \in 1..Len(processed) :
                                                processed[i].ip /\ processed[i].tcp}}

SetMin(S) == CHOOSE x \in S : \A y \in S : x <= y

\* C3: at any point of a session at most one observation has been emitted
\* per flow, and it carries the fingerprint of the earliest packet of the
\* flow whose payload parses; later packets of the flow add nothing.
C3_FirstHelloPerFlow ==
    \A k \in FlowsSoFar \cup {ObsFlow(signatures[i]) : i \in 1..Len(signatures)} :
        LET obs == {i \in 1..Len(signatures) : ObsFlow(signatures[i]) = k} IN
        /\ Cardinality(obs) <= 1
        /\ \A i \in obs :
              /\ ParsingOf(k) # {}
              /\ signatures[i].signature = Fingerprint(processed[SetMin(ParsingOf(k))])

\* a flow has sent two ClientHellos with different fingerprints, the second
\* from the other end, and one observation stands
C3_Witness ==
    /\ Len(processed) = 3
    /\ Len(signatures) = 1
    /\ \E k \in FlowsSoFar :
          /\ Cardinality(ParsingOf(k)) >= 2
          /\ \E i, j \in ParsingOf(k) :
                /\ Fingerprint(processed[i]) # Fingerprint(processed[j])
                /\ processed[i].src # processed[j].src

\* the step emits exactly one observation, that of pkt, and remembers its flow
EmitsFor(pkt) ==
    /\ seen_connections' = seen_connections \cup {ConnId(pkt)}
    /\ Len(signatures') = Len(signatures) + 1
    /\ SubSeq(signatures', 1, Len(signatures)) = signatures
    /\ signatures'[Len(signatures')].signature = Fingerprint(pkt)
    /\ ObsFlow(signatures'[Len(signatures')]) = FlowKey(pkt)

\* C10 as stated: a TCP packet whose flow is not in seen and whose payload
\* parses is remembered and emits exactly one observation with the
\* fingerprint of its payload.
C10_NewFlowEmits ==
    [][\A pkt \in Packets :
          (/\ processed' = Append(processed, pkt)
           /\ pkt.tcp
           /\ ConnId(pkt) \notin seen_connections
           /\ Parses(pkt))
          => EmitsFor(pkt)]_vars

\* C10 amended: the same for a packet with an IP and a TCP layer whose
\* source port or destination port is 443.
C10_NewHttpsFlowEmits ==
    [][\A pkt \in Packets :
          (/\ processed' = Append(processed, pkt)
           /\ pkt.ip /\ pkt.tcp
           /\ (pkt.sport = HTTPS \/ pkt.dport = HTTPS)
           /\ ConnId(pkt) \notin seen_connections
           /\ Parses(pkt))
          => EmitsFor(pkt)]_vars

\* two flows have each emitted their observation
C10_Witness ==
    /\ Len(processed) = 2
    /\ Len(signatures) = 2
    /\ Cardinality(seen_connections) = 2
    /\ signatures[2].signature = Fingerprint(processed[2])

\* the packet passes the layer and port filters of the capture loop
Captured(pkt) == pkt.ip /\ pkt.tcp /\ ~NotHttps(pkt)

\* the captured packets of the flow of pkt gone through so far
EarlierOnFlow(pkt) == {j \in 1..Len(processed) :
                         Captured(processed[j]) /\ FlowKey(processed[j]) = FlowKey(pkt)}

C13_FlowsIndependent ==
    [][\A pkt \in Packets :
          processed' = Append(processed, pkt) =>
             IF /\ Captured(pkt) /\ Parses(pkt)
                /\ \A j \in EarlierOnFlow(pkt) : ~Parses(processed[j])
             THEN EmitsFor(pkt)
             ELSE UNCHANGED <<seen_connections, signatures>>]_vars

\* a flow was remembered, then another flow between the same addresses sent
\* its first ClientHello and was emitted, then the first flow came again
C13_Witness ==
    /\ Len(processed) = 3
    /\ \A j \in 1..3 : Captured(processed[j]) /\ Parses(processed[j])
    /\ FlowKey(processed[1]) # FlowKey(processed[2])
    /\ FlowKey(processed[3]) = FlowKey(processed[1])
    /\ processed[1].src = processed[2].src /\ processed[1].dst = processed[2].dst
    /\ Len(signatures) = 2
    /\ ObsFlow(signatures[2]) = FlowKey(processed[2])
    /\ Cardinality(seen_connections) = 2

\* the flow identifier of an observation: its two endpoints, the lesser
\* one first
ObsConnId(o) ==
    LET a == <<o.src, o.sport>>
        b == <<o.dst, o.dport>>
    IN IF a[1] < b[1] \/ (a[1] = b[1] /\ a[2] <= b[2]) THEN <<a, b>> ELSE <<b, a>>

IsPrefix(s, t) == Len(s) <= Len(t) /\ SubSeq(t, 1, Len(s)) = s

\* the seen-set is the set of the flows of the observations, one
\* observation for each
SeenMatches(seen, sigs) ==
    /\ {ObsConnId(sigs[i]) : i \in 1..Len(sigs)} = seen
    /\ Len(sigs) = Cardinality(seen)

\* C28: at every point of a session the flow identifiers of the emitted
\* observations are exactly the seen-set and there are as many observations
\* as identifiers; the seen-set only grows; the observation list is only
\* appended to, in capture order.
C28_SeenMatchesObservations ==
    [][/\ SeenMatches(seen_connections, signatures)
       /\ SeenMatches(seen_connections', signatures')
       /\ seen_connections \subseteq seen_connections'
       /\ IsPrefix(signatures, signatures')
       /\ Len(signatures') <= Len(signatures) + 1
       /\ signatures' # signatures =>
             /\ Captured(processed'[Len(processed')])
             /\ ObsConnId(signatures'[Len(signatures')]) = ConnId(processed'[Len(processed')])]_vars

\* two observations on two flows, then a packet that added nothing
C28_Witness ==
    /\ Len(processed) = 3
    /\ Len(signatures) = 2 /\ Cardinality(seen_connections) = 2
    /\ ObsConnId(signatures[1]) = ConnId(processed[1])
    /\ ObsConnId(signatures[2]) = ConnId(processed[2])
    /\ ObsConnId(signatures[1]) # ObsConnId(signatures[2])
    /\ seen_connections = {ObsConnId(signatures[1]), ObsConnId(signatures[2])}

\* the packet is not TCP over IP or has neither port 443
OffHttps(pkt) == ~pkt.ip \/ ~pkt.tcp \/ (pkt.sport # 443 /\ pkt.dport # 443)

\* C29: a packet that is not TCP over IP, or whose ports are both other
\* than 443, never gives an observation and never changes the seen-set,
\* even when its payload is a valid ClientHello.
C29_OnlyHttpsFlows ==
    [][(/\ Len(processed') = Len(processed) + 1
        /\ OffHttps(processed'[Len(processed')]))
          => /\ signatures' = signatures
             /\ seen_connections' = seen_connections]_vars

\* a valid ClientHello on port 8443, one in a packet that is not IP and
\* one in a packet that is not TCP have gone through: nothing was emitted
C29_Witness ==
    /\ Len(processed) = 3
    /\ \A j \in 1..3 : OffHttps(processed[j]) /\ Parses(processed[j])
    /\ processed[1].ip /\ processed[1].tcp /\ processed[1].dport = 8443
    /\ ~processed[2].ip /\ ~processed[3].tcp
    /\ signatures = <<>> /\ seen_connections = {}

(***************************************************************************)
(* The connection identifier on its own: a session whose packets go        *)
(* between any two of four endpoints (two addresses, port 443 and a client *)
(* port), a ClientHello in each.                                           *)
(***************************************************************************)
Endpoints == {<<a, p>> : a \in {1, 2}, p \in {HTTPS, 50000}}

ConnPackets ==
    {Packet(TRUE, TRUE, s[1], s[2], d[1], d[2], TRUE, HelloB) : s \in Endpoints, d \in Endpoints}

NextConn == \E pkt \in ConnPackets : ProcessPacket(pkt)

SpecConn == Init /\ [][NextConn]_vars

\* the packet of the other direction
Reverse(pkt) == [pkt EXCEPT !.src = pkt.dst, !.sport = pkt.dport,
                            !.dst = pkt.src, !.dport = pkt.sport]

\* C12: the connection identifier of a packet is that of the packet with
\* source and destination exchanged, and two packets have the same
\* identifier iff they have the same unordered pair of (address, port)
\* endpoints; so seen holds one identifier per flow emitted.
C12_ConnIdSymmetricExact ==
    /\ \A i, j \in 1..Len(processed) :
          /\ ConnId(Reverse(processed[i])) = ConnId(processed[i])
          /\ (ConnId(processed[i]) = ConnId(processed[j]))
                <=> (FlowKey(processed[i]) = FlowKey(processed[j]))
    /\ Cardinality(seen_connections)
          = Cardinality({FlowKey(processed[i]) :
                           i \in {j \in 1..Len(processed) : Captured(processed[j])}})
    /\ Len(signatures) = Cardinality(seen_connections)

\* a flow has come in both directions and so has the flow with the ports
\* exchanged between the two addresses: two identifiers are remembered
C12_Witness ==
    /\ Len(processed) = 3
    /\ processed[2] = Reverse(processed[1])
    /\ processed[1].src # processed[1].dst
    /\ processed[3].src = processed[1].src /\ processed[3].dst = processed[1].dst
    /\ processed[3].sport = processed[1].dport /\ processed[3].dport = processed[1].sport
    /\ processed[1].sport # processed[1].dport
    /\ Cardinality(seen_connections) = 2

(***************************************************************************)
(* Several calls of extract_ja4_from_pcap, one per capture session, their  *)
(* loops running one before the other or turn by turn.  signatures and     *)
(* seen_connections are locals of the call (lines 168-169): calls[c] holds *)
(* those of call c and the packets it has gone through.                    *)
(***************************************************************************)
MaxCallPkts == 2      \* packets of one of several capture sessions

Sessions == {1, 2}

\* a flow in both directions with a whole and a truncated ClientHello, and
\* a second flow
CallPackets ==
    {Packet(TRUE, TRUE, 1, 50000, 2, HTTPS, TRUE, HelloA),
     Packet(TRUE, TRUE, 2, HTTPS, 1, 50000, TRUE, HelloB),
     Packet(TRUE, TRUE, 1, 50000, 2, HTTPS, TRUE, HelloCut),
     Packet(TRUE, TRUE, 1, 50001, 2, HTTPS, TRUE, HelloA)}

\* signatures = []; seen_connections = set()
NewCall == [processed |-> <<>>, seen_connections |-> {}, signatures |-> <<>>]

\* a slip: one set of connections for all the calls
SeenOf_Shared(cs, c) == UNION {cs[d].seen_connections : d \in DOMAIN cs}

\* the seen_connections the loop of call c reads
SeenOf(cs, c) == cs[c].seen_connections

InitSessions ==
    /\ calls = <<>>
    /\ processed = <<>> /\ seen_connections = {} /\ signatures = <<>>
    /\ ParseIdle /\ AggIdle

\* extract_ja4_from_pcap is called for session c
StartCall(c) ==
    /\ c \notin DOMAIN calls
    /\ calls' = [d \in DOMAIN calls \cup {c} |-> IF d = c THEN NewCall ELSE calls[d]]
    /\ UNCHANGED <<processed, seen_connections, signatures, parseVars, aggVars>>

\* one turn of the loop of call c
CallStep(c, pkt) ==
    /\ c \in DOMAIN calls
    /\ Len(calls[c].processed) < MaxCallPkts
    /\ LET after == LoopBody(SeenOf(calls, c), calls[c].signatures, pkt) IN
       /\ ~after.raised
       /\ calls' = [calls EXCEPT ![c] =
                       [processed |-> Append(@.processed, pkt),
                        seen_connections |-> after.seen_connections,
                        signatures |-> after.signatures]]
    /\ UNCHANGED <<processed, seen_connections, signatures, parseVars, aggVars>>

NextSessions ==
    \/ \E c \in Sessions : StartCall(c)
    \/ \E c \in Sessions, pkt \in CallPackets : CallStep(c, pkt)

SpecSessions == InitSessions /\ [][NextSessions]_vars

\* packet n of pkts is the first of its flow that the loop takes and that
\* parses
IsFirstHello(pkts, n) ==
    /\ Captured(pkts[n]) /\ Parses(pkts[n])
    /\ \A i \in 1..(n - 1) :
          (Captured(pkts[i]) /\ FlowKey(pkts[i]) = FlowKey(pkts[n])) => ~Parses(pkts[i])

\* the observations of a session as a function of its packets alone: one
\* for each first ClientHello of a flow, in capture order
RECURSIVE FirstHellos(_, _)
FirstHellos(pkts, n) ==
    IF n = 0 THEN <<>>
    ELSE IF IsFirstHello(pkts, n)
    THEN Append(FirstHellos(pkts, n - 1),
                Observation(pkts[n], parse_tls_client_hello(pkts[n].raw)))
    ELSE FirstHellos(pkts, n - 1)

\* C14: the observations and the seen set of a session are a function of
\* the packets of that session alone, starting from an empty seen set,
\* whatever other sessions run before, after or between its steps; a flow
\* emitted in one session is emitted in another session too.
C14_SessionsIsolated ==
    \A c \in DOMAIN calls :
        LET pkts == calls[c].processed IN
        /\ calls[c].signatures = FirstHellos(pkts, Len(pkts))
        /\ calls[c].seen_connections
              = {ConnId(pkts[n]) : n \in {j \in 1..Len(pkts) : IsFirstHello(pkts, j)}}

\* two sessions have both emitted the same flow, one of them a second flow
\* as well
C14_Witness ==
    /\ DOMAIN calls = Sessions
    /\ Len(calls[1].signatures) = 1 /\ Len(calls[2].signatures) = 2
    /\ Len(calls[1].processed) = 2
    /\ \E i \in 1..2 : ObsFlow(calls[2].signatures[i]) = ObsFlow(calls[1].signatures[1])
    /\ calls[1].seen_connections # calls[2].seen_connections

(***************************************************************************)
(* process_all_pcaps and update_database.  The capture files come sorted   *)
(* by name, so the files of one framework are contiguous and the           *)
(* frameworks come in the order of their names; framework_signatures maps  *)
(* the frameworks that are keys of the dict to the signatures collected    *)
(* for them.                                                               *)
(* An observation is kept as its 'signature' value, the only field the     *)
(* analysis reads.                                                         *)
(***************************************************************************)
Labels == <<"cohere", "openai">>

LabelSet == {Labels[i] : i \in 1..Len(Labels)}

LabelRank(l) == CHOOSE i \in 1..Len(Labels) : Labels[i] = l

Fingerprints == {"A", "B", "C"}

\* what extract_ja4_from_pcap returned for one file
FileSignatures == SeqsUpTo(Fingerprints, 2)

\* name_map.get(framework_key, framework_key.title())
FrameworkName(framework_key) ==
    CASE framework_key = "openai" -> "OpenAI"
      [] framework_key = "cohere" -> "Cohere"

\* str.lower() on the names that occur
Lower(name) ==
    CASE name = "OpenAI" -> "openai"
      [] name = "Cohere" -> "cohere"
      [] OTHER -> name

NoNote == [text |-> "", arg |-> ""]

\* an entry of signature_database.csv as read by csv.DictReader
OldEntry(name) ==
    [framework_name |-> name, ja4_signature |-> "old", verified_runs |-> "3/3",
     total |-> "", note |-> NoNote]

InitAgg ==
    /\ framework_signatures = <<>>
    /\ results = <<>>
    /\ printed = <<>>
    /\ db \in {<<>>, <<OldEntry("OpenAI")>>, <<OldEntry("cohere"), OldEntry("OpenAI")>>}
    /\ apc = "files"
    /\ ParseIdle /\ SessionIdle

\* defaultdict(list): the list of a key, the empty list for a new key
ListOf(fs, framework) == IF framework \in DOMAIN fs THEN fs[framework] ELSE <<>>

TotalCollected ==
    LET n(l) == Len(ListOf(framework_signatures, l)) IN n("cohere") + n("openai")

\* a slip: the list of the framework is looked up, and so made a key, for
\* a file without signatures too
Extend_Always(fs, framework, sigs) ==
    [l \in DOMAIN fs \cup {framework} |->
        IF l = framework THEN ListOf(fs, l) \o sigs ELSE fs[l]]

\* a slip: the signatures of the file replace those collected before
Extend_Overwrite(fs, framework, sigs) ==
    IF sigs # <<>>
    THEN [l \in DOMAIN fs \cup {framework} |-> IF l = framework THEN sigs ELSE fs[l]]
    ELSE fs

\* if signatures: framework_signatures[framework].extend(signatures)
Extend(fs, framework, sigs) ==
    IF sigs # <<>>
    THEN [l \in DOMAIN fs \cup {framework} |->
             IF l = framework THEN ListOf(fs, l) \o sigs ELSE fs[l]]
    ELSE fs

\* one turn of the loop over pcap_files, lines 33-44
ProcessFile(framework, sigs) ==
    /\ apc = "files"
    /\ \A l \in DOMAIN framework_signatures : LabelRank(l) <= LabelRank(framework)
    /\ TotalCollected + Len(sigs) <= MaxObs
    /\ framework_signatures' = Extend(framework_signatures, framework, sigs)
    /\ UNCHANGED <<results, printed, db, apc, parseVars, sessionVars>>

\* the keys of sig_counts in insertion order: the distinct signatures in
\* the order of their first occurrence
RECURSIVE SigKeys(_)
SigKeys(sigs) ==
    IF sigs = <<>> THEN <<>>
    ELSE LET front == SubSeq(sigs, 1, Len(sigs) - 1)
             last == sigs[Len(sigs)]
         IN IF Contains(front, last) THEN SigKeys(front)
            ELSE Append(SigKeys(front), last)

\* a slip: the count of a signature stops at the first other signature
\* that comes after it
SigCount_FirstRun(sigs, sig) ==
    LET at == {i \in 1..Len(sigs) : sigs[i] = sig}
    IN IF at = {} THEN 0
       ELSE LET first == CHOOSE i \in at : \A j \in at : i <= j
            IN Cardinality({k \in first..Len(sigs) : \A j \in first..k : sigs[j] = sig})

\* a slip: a signature is counted once, however often it comes
SigCount_Once(sigs, sig) == IF Contains(sigs, sig) THEN 1 ELSE 0

\* sig_counts[sig_info['signature']] += 1
SigCount(sigs, sig) == Cardinality({i \in 1..Len(sigs) : sigs[i] = sig})

\* a slip: the last of the most frequent signatures is taken
MostCommon_Last(sigs) ==
    LET keys == SigKeys(sigs)
        best == CHOOSE i \in 1..Len(keys) :
                   /\ \A j \in 1..Len(keys) : SigCount(sigs, keys[j]) <= SigCount(sigs, keys[i])
                   /\ \A j \in (i + 1)..Len(keys) : SigCount(sigs, keys[j]) < SigCount(sigs, keys[i])
    IN <<keys[best], SigCount(sigs, keys[best])>>

\* max(sig_counts.items(), key=lambda x: x[1]): the first item, in the
\* order of the dict, whose count is the largest
MostCommon(sigs) ==
    LET keys == SigKeys(sigs)
        best == CHOOSE i \in 1..Len(keys) :
                   /\ \A j \in 1..Len(keys) : SigCount(sigs, keys[j]) <= SigCount(sigs, keys[i])
                   /\ \A j \in 1..(i - 1) : SigCount(sigs, keys[j]) < SigCount(sigs, keys[i])
    IN <<keys[best], SigCount(sigs, keys[best])>>

\* f"{consistent}/{total}"
Consistency(consistent, total) == Decimal(consistent) \o "/" \o Decimal(total)

\* results[framework] = {...}, lines 60-71
Result(sigs) ==
    LET most_common == MostCommon(sigs)
        total == Len(sigs)
        consistent == most_common[2]
    IN [signature |-> most_common[1],
        count |-> consistent,
        total |-> total,
        consistency |-> Consistency(consistent, total),
        unique |-> Len(SigKeys(sigs)),
        all_signatures |-> SigKeys(sigs)]

\* elif consistent / total >= 0.67, line 80.  The quotient of two counts
\* below 10^14 compares with the double 0.67 as the fraction does with
\* 67/100.
PrintMostly(consistent, total) == consistent * 100 >= 67 * total

\* the consistency line printed, lines 78-83
PrintedLine(r) ==
    IF r.unique = 1 THEN [text |-> "Fully consistent!", arg |-> ""]
    ELSE IF PrintMostly(r.count, r.total)
    THEN [text |-> "Mostly consistent", arg |-> r.consistency]
    ELSE [text |-> "Low consistency - multiple signatures", arg |-> ""]

\* the analysis loop, lines 53-85, over the items of framework_signatures;
\* if sig_counts: a framework without counted signatures gets no result
Analyze ==
    /\ apc = "files"
    /\ LET present == {l \in DOMAIN framework_signatures :
                          SigKeys(framework_signatures[l]) # <<>>} IN
       /\ results' = [l \in present |-> Result(framework_signatures[l])]
       /\ printed' = [l \in present |-> PrintedLine(Result(framework_signatures[l]))]
    /\ apc' = "analyzed"
    /\ UNCHANGED <<framework_signatures, db, parseVars, sessionVars>>

\* a slip: a majority of one half is enough
NoteMostly_Half(count, total) == count * 2 >= total

\* elif sig_data['count'] / sig_data['total'] >= 0.67, line 133
NoteMostly(count, total) == count * 100 >= 67 * total

\* consistency_note, lines 131-136
ConsistencyNote(sig_data) ==
    IF sig_data.unique = 1 THEN [text |-> "Fully consistent signature", arg |-> ""]
    ELSE IF NoteMostly(sig_data.count, sig_data.total)
    THEN [text |-> "Mostly consistent", arg |-> sig_data.consistency]
    ELSE [text |-> "Multiple signatures found", arg |-> Decimal(sig_data.unique) \o " unique"]

\* the first entry whose name matches, 0 when there is none (lines 125-126)
FindEntry(entries, framework_name) ==
    LET hits == {i \in 1..Len(entries) :
                    Lower(entries[i].framework_name) = Lower(framework_name)}
    IN IF hits = {} THEN 0 ELSE SetMin(hits)

\* one turn of the loop over results.items(), lines 120-160
UpdateEntry(entries, framework_key, sig_data) ==
    LET framework_name == FrameworkName(framework_key)
        i == FindEntry(entries, framework_name)
    IN IF i # 0
       THEN [entries EXCEPT ![i] =
                [@ EXCEPT !.ja4_signature = sig_data.signature,
                          !.verified_runs = sig_data.consistency,
                          !.total = Decimal(sig_data.total),
                          !.note = ConsistencyNote(sig_data)]]
       ELSE Append(entries,
                [framework_name |-> framework_name,
                 ja4_signature |-> sig_data.signature,
                 verified_runs |-> sig_data.consistency,
                 total |-> Decimal(sig_data.total),
                 note |-> NoNote])

RECURSIVE UpdateAll(_, _, _)
UpdateAll(entries, res, k) ==
    IF k > Len(Labels) THEN entries
    ELSE IF Labels[k] \in DOMAIN res
    THEN UpdateAll(UpdateEntry(entries, Labels[k], res[Labels[k]]), res, k + 1)
    ELSE UpdateAll(entries, res, k + 1)

\* main: if results: update_database(results)
UpdateDatabase ==
    /\ apc = "analyzed"
    /\ DOMAIN results # {}
    /\ db' = UpdateAll(db, results, 1)
    /\ apc' = "updated"
    /\ UNCHANGED <<framework_signatures, results, printed, parseVars, sessionVars>>

\* main: else: print("[-] No signatures found in PCAPs")
NothingFound ==
    /\ apc = "analyzed"
    /\ DOMAIN results = {}
    /\ apc' = "nothing"
    /\ UNCHANGED <<framework_signatures, results, printed, db, parseVars, sessionVars>>

NextAgg ==
    \/ \E framework \in LabelSet, sigs \in FileSignatures : ProcessFile(framework, sigs)
    \/ Analyze
    \/ UpdateDatabase
    \/ NothingFound

SpecAgg == InitAgg /\ [][NextAgg]_vars

(***************************************************************************)
(* The loop over pcap_files with the capture sessions themselves: every    *)
(* file is a sequence of packets (or cannot be read), extract_ja4_from_pcap*)
(* runs its loop over them from fresh locals, and the observations, kept   *)
(* here as the dicts they are, are collected under the framework of the    *)
(* file.  calls keeps the calls made so far.                               *)
(***************************************************************************)
MaxFiles == 2         \* capture files processed

\* a flow in both directions and a second flow
FilePackets ==
    {Packet(TRUE, TRUE, 1, 50000, 2, HTTPS, TRUE, HelloA),
     Packet(TRUE, TRUE, 2, HTTPS, 1, 50000, TRUE, HelloB),
     Packet(TRUE, TRUE, 1, 50001, 2, HTTPS, TRUE, HelloA)}

Pcaps ==
    {[framework |-> l, readable |-> TRUE, packets |-> ps] :
        l \in LabelSet, ps \in SeqsUpTo(FilePackets, 2)}
    \cup {[framework |-> l, readable |-> FALSE, packets |-> <<>>] : l \in LabelSet}

\* for pkt in packets, from packet n on
RECURSIVE RunLoop(_, _, _)
RunLoop(packets, n, locals) ==
    IF n > Len(packets) \/ locals.raised THEN locals
    ELSE RunLoop(packets, n + 1,
                 LoopBody(locals.seen_connections, locals.signatures, packets[n]))

\* rdpcap fails: return []; else the loop from signatures = [],
\* seen_connections = set(); return signatures
extract_ja4_from_pcap(pcap_file) ==
    IF ~pcap_file.readable THEN Locals({}, <<>>, FALSE)
    ELSE RunLoop(pcap_file.packets, 1, Locals({}, <<>>, FALSE))

InitFiles ==
    /\ calls = <<>>
    /\ framework_signatures = <<>>
    /\ results = <<>> /\ printed = <<>> /\ db = <<>>
    /\ apc = "files"
    /\ processed = <<>> /\ seen_connections = {} /\ signatures = <<>>
    /\ ParseIdle

\* one turn of the loop over pcap_files, lines 33-44, the call of
\* extract_ja4_from_pcap included
ProcessPcap(pcap_file) ==
    /\ apc = "files"
    /\ Len(calls) < MaxFiles
    /\ \A c \in 1..Len(calls) : LabelRank(calls[c].framework) <= LabelRank(pcap_file.framework)
    /\ LET returned == extract_ja4_from_pcap(pcap_file) IN
       /\ ~returned.raised
       /\ framework_signatures' =
             Extend(framework_signatures, pcap_file.framework, returned.signatures)
       /\ calls' = Append(calls, [framework |-> pcap_file.framework,
                                  processed |-> pcap_file.packets,
                                  signatures |-> returned.signatures])
    /\ UNCHANGED <<processed, seen_connections, signatures, results, printed, db, apc,
                   parseVars>>

NextFiles == \E pcap_file \in Pcaps : ProcessPcap(pcap_file)

SpecFiles == InitFiles /\ [][NextFiles]_vars

\* no two observations of the list have the same flow identity
FlowsDistinct(obs) ==
    \A i, j \in 1..Len(obs) : ObsFlow(obs[i]) = ObsFlow(obs[j]) => i = j

\* the signatures returned by the calls c..Len(calls) made for framework l,
\* one after the other
RECURSIVE ReturnedFor(_, _)
ReturnedFor(l, c) ==
    IF c > Len(calls) THEN <<>>
    ELSE IF calls[c].framework = l THEN calls[c].signatures \o ReturnedFor(l, c + 1)
    ELSE ReturnedFor(l, c + 1)

\* C15 as stated: in the observations collected for one label over all its
\* capture files no two have the same flow identity.
C15_OncePerFlowPerLabel ==
    \A l \in DOMAIN framework_signatures : FlowsDistinct(framework_signatures[l])

\* C15 amended: no two observations returned for one capture file have the
\* same flow identity, and the observations of a label are those of its
\* files one after the other: a flow is recorded once for each file of the
\* label in which it has a ClientHello.
C15_OncePerFlowPerFile ==
    /\ \A c \in 1..Len(calls) : FlowsDistinct(calls[c].signatures)
    /\ \A l \in LabelSet : ListOf(framework_signatures, l) = ReturnedFor(l, 1)
    /\ \A l \in DOMAIN framework_signatures : \A k \in {FlowKey(pkt) : pkt \in FilePackets} :
          Cardinality({i \in 1..Len(framework_signatures[l]) :
                          ObsFlow(framework_signatures[l][i]) = k})
            = Cardinality({c \in 1..Len(calls) :
                              /\ calls[c].framework = l
                              /\ \E n \in 1..Len(calls[c].processed) :
                                    FlowKey(calls[c].processed[n]) = k})

\* two files of one label hold the same flow, in the second file after
\* another flow: the label has it twice
C15_Witness ==
    /\ Len(calls) = 2
    /\ calls[1].framework = calls[2].framework
    /\ Len(calls[1].signatures) = 1 /\ Len(calls[2].signatures) = 2
    /\ ObsFlow(calls[2].signatures[2]) = ObsFlow(calls[1].signatures[1])
    /\ Len(framework_signatures[calls[1].framework]) = 3
    /\ ~FlowsDistinct(framework_signatures[calls[1].framework])

(***************************************************************************)
(* Properties of the aggregation.  The statistics of a label are taken     *)
(* from its list of observations, not from the result that is checked.     *)
(***************************************************************************)
Analyzed == apc \in {"analyzed", "updated"}

\* the order of the strings "A" < "B" < "C"
LexRank(f) == CASE f = "A" -> 1 [] f = "B" -> 2 [] f = "C" -> 3

Distinct(sigs) == {sigs[i] : i \in 1..Len(sigs)}

Occurrences(sigs, f) == Cardinality({i \in 1..Len(sigs) : sigs[i] = f})

\* the fingerprints with the largest number of occurrences
Tied(sigs) == {f \in Distinct(sigs) :
                  \A g \in Distinct(sigs) : Occurrences(sigs, g) <= Occurrences(sigs, f)}

DominantCount(sigs) == Occurrences(sigs, CHOOSE f \in Tied(sigs) : TRUE)

FirstIndex(sigs, f) == SetMin({i \in 1..Len(sigs) : sigs[i] = f})

\* C4 as stated: among several fingerprints with the largest count the
\* dominant one is the lexicographically smallest, whatever the order of
\* the observations.
C4_TieBreakLexSmallest ==
    Analyzed =>
        \A l \in DOMAIN results :
            LET tied == Tied(framework_signatures[l]) IN
            Cardinality(tied) >= 2 =>
                /\ results[l].signature \in tied
                /\ \A g \in tied : LexRank(results[l].signature) <= LexRank(g)

\* C4 amended: among several fingerprints with the largest count the
\* dominant one is the one observed first (A for A,B and B for B,A).
C4_TieBreakFirstObserved ==
    Analyzed =>
        \A l \in DOMAIN results :
            LET sigs == framework_signatures[l]
                tied == Tied(sigs)
            IN Cardinality(tied) >= 2 =>
                /\ results[l].signature \in tied
                /\ \A g \in tied : FirstIndex(sigs, results[l].signature) <= FirstIndex(sigs, g)

\* the observations B, A have been analyzed
C4_Witness ==
    /\ Analyzed
    /\ "openai" \in DOMAIN framework_signatures
    /\ framework_signatures["openai"] = <<"B", "A">>
    /\ results["openai"].signature = "B"

\* the entry of the database updated for label l, 0 when it was added anew
\* or the database is not written yet
UpdatedEntry(l) ==
    IF apc # "updated" THEN 0
    ELSE LET i == FindEntry(db, FrameworkName(l)) IN
         IF i # 0 /\ db[i].note # NoNote THEN i ELSE 0

Stats(l, dominant, dominant_count, total_count, distinct_count) ==
    /\ results[l].signature = dominant
    /\ results[l].count = dominant_count
    /\ results[l].total = total_count
    /\ results[l].unique = distinct_count

\* C5: the observations A, A, B give dominant A, dominant count 2, total 3,
\* distinct 2 and the class Majority, on the line printed and in the note
\* written to the database.
C5_AABMajority ==
    Analyzed =>
        \A l \in DOMAIN results :
            framework_signatures[l] = <<"A", "A", "B">> =>
                /\ Stats(l, "A", 2, 3, 2)
                /\ printed[l].text = "Mostly consistent"
                /\ UpdatedEntry(l) # 0 => db[UpdatedEntry(l)].note.text = "Mostly consistent"

PrintedClass(line) ==
    CASE line.text = "Fully consistent!" -> "Full"
      [] line.text = "Mostly consistent" -> "Majority"
      [] line.text = "Low consistency - multiple signatures" -> "Mixed"

NoteClass(note) ==
    CASE note.text = "Fully consistent signature" -> "Full"
      [] note.text = "Mostly consistent" -> "Majority"
      [] note.text = "Multiple signatures found" -> "Mixed"

\* the class of a list of observations as the claim defines it
ClaimedClass(sigs) ==
    IF Cardinality(Distinct(sigs)) = 1 THEN "Full"
    ELSE IF 100 * DominantCount(sigs) >= 67 * Len(sigs) THEN "Majority"
    ELSE "Mixed"

\* C6: every non-empty list of observations gets one class: Full iff it has
\* one distinct fingerprint (then dominant count = total), Majority iff it
\* has several and 100 * dominant count >= 67 * total, Mixed otherwise;
\* the line printed and the note written to the database agree.
C6_ConsistencyClass ==
    Analyzed =>
        \A l \in DOMAIN results :
            LET sigs == framework_signatures[l] IN
            /\ sigs # <<>>
            /\ PrintedClass(printed[l]) = ClaimedClass(sigs)
            /\ ClaimedClass(sigs) = "Full" => results[l].count = results[l].total
            /\ results[l].count = DominantCount(sigs)
            /\ results[l].total = Len(sigs)
            /\ results[l].unique = Cardinality(Distinct(sigs))
            /\ UpdatedEntry(l) # 0 =>
                  NoteClass(db[UpdatedEntry(l)].note) = PrintedClass(printed[l])

\* a label with 3 equal observations out of 4 has been written to the
\* database as Majority
C6_Witness ==
    /\ apc = "updated"
    /\ \E l \in DOMAIN results :
          /\ Len(framework_signatures[l]) = 4
          /\ UpdatedEntry(l) # 0
          /\ NoteClass(db[UpdatedEntry(l)].note) = "Majority"

RECURSIVE SumOccurrences(_, _)
SumOccurrences(sigs, keys) ==
    IF keys = <<>> THEN 0
    ELSE Occurrences(sigs, Head(keys)) + SumOccurrences(sigs, Tail(keys))

\* C16: for every label analyzed, total is the number of its observations,
\* unique the number of distinct fingerprints, the dominant signature is
\* one of them and count is its number of occurrences, which no other
\* fingerprint exceeds; the counts of the distinct fingerprints sum to
\* total; so 1 <= count <= total, 1 <= unique <= total and
\* count * unique >= total.
C16_AggregateStatistics ==
    Analyzed =>
        \A l \in DOMAIN results :
            LET sigs == framework_signatures[l]
                r == results[l]
            IN /\ sigs # <<>>
               /\ r.total = Len(sigs)
               /\ r.unique = Cardinality(Distinct(sigs))
               /\ r.signature \in Distinct(sigs)
               /\ r.count = Occurrences(sigs, r.signature)
               /\ \A g \in Distinct(sigs) : Occurrences(sigs, g) <= r.count
               /\ Distinct(r.all_signatures) = Distinct(sigs)
               /\ Len(r.all_signatures) = r.unique
               /\ SumOccurrences(sigs, r.all_signatures) = r.total
               /\ 1 <= r.count /\ r.count <= r.total
               /\ 1 <= r.unique /\ r.unique <= r.total
               /\ r.count * r.unique >= r.total
               /\ r.consistency = Decimal(r.count) \o "/" \o Decimal(r.total)

\* a label with four observations of three fingerprints, one of them twice
C16_Witness ==
    /\ Analyzed
    /\ \E l \in DOMAIN results :
          /\ results[l].total = 4 /\ results[l].unique = 3 /\ results[l].count = 2
          /\ results[l].consistency = "2/4"

\* C17: a file without observations makes no key in framework_signatures,
\* so every label the analysis loop goes through has at least one
\* observation; the labels with a result are exactly the labels with
\* observations, each with total >= 1 and count >= 1, and a label whose
\* files gave nothing has no result.
C17_NoEmptyAggregation ==
    [][/\ \A l \in LabelSet :
             ProcessFile(l, <<>>) => framework_signatures' = framework_signatures
       /\ \A l \in DOMAIN framework_signatures' : framework_signatures'[l] # <<>>
       /\ Analyze =>
             /\ DOMAIN results' = DOMAIN framework_signatures
             /\ \A l \in DOMAIN results' :
                   /\ results'[l].total >= 1 /\ results'[l].count >= 1
                   /\ results'[l].total = Len(framework_signatures[l])
             /\ \A l \in LabelSet \ DOMAIN framework_signatures : l \notin DOMAIN results'
       /\ (apc = "analyzed" /\ DOMAIN results = {}) => db' = db]_vars

\* the files of one label gave observations, those of the other did not:
\* one result
C17_Witness ==
    /\ apc = "analyzed"
    /\ DOMAIN results = {"openai"}
    /\ DOMAIN framework_signatures = {"openai"}
    /\ results["openai"].total = 1

\* the statistics of two results are the same
SameStatistics(r, s) ==
    /\ r.count = s.count /\ r.total = s.total /\ r.unique = s.unique
    /\ r.consistency = s.consistency
    /\ PrintedLine(r) = PrintedLine(s)
    /\ NoteClass(ConsistencyNote(r)) = NoteClass(ConsistencyNote(s))

\* C30: the statistics of a label (dominant count, total count, distinct
\* count, consistency string, class) are the same for any two orderings of
\* the same observations; only the dominant fingerprint may depend on the
\* order, and only among fingerprints tied for the largest count.  Checked
\* between two labels whose lists are orderings of each other, and between
\* the list of a label and the list with two neighbours exchanged (every
\* ordering comes from another by such exchanges, and every list is the
\* list of a label in some state).
C30_StatisticsOrderFree ==
    Analyzed =>
        /\ \A l, m \in DOMAIN results :
              IsPermutation(framework_signatures[l], framework_signatures[m]) =>
                  /\ SameStatistics(results[l], results[m])
                  /\ printed[l] = printed[m]
                  /\ results[m].signature \in Tied(framework_signatures[l])
                  /\ (Cardinality(Tied(framework_signatures[l])) = 1
                        => results[m].signature = results[l].signature)
        /\ \A l \in DOMAIN results :
              \A i \in 1..(Len(framework_signatures[l]) - 1) :
                  LET other == Result(Swap(framework_signatures[l], i)) IN
                  /\ SameStatistics(results[l], other)
                  /\ PrintedLine(other) = printed[l]
                  /\ other.signature \in Tied(framework_signatures[l])
                  /\ (Cardinality(Tied(framework_signatures[l])) = 1
                        => other.signature = results[l].signature)

\* the two labels have the observations A, B and B, A: the same
\* statistics, the dominant fingerprints A and B
C30_Witness ==
    /\ Analyzed
    /\ DOMAIN results = LabelSet
    /\ framework_signatures["cohere"] = <<"A", "B">>
    /\ framework_signatures["openai"] = <<"B", "A">>
    /\ results["cohere"].signature = "A" /\ results["openai"].signature = "B"
    /\ results["cohere"].consistency = "1/2" /\ results["openai"].consistency = "1/2"

====
